---------------------------- MODULE Spec2Model ----------------------------
(***************************************************************************)
(* A model of the ingestion pipeline and the quality filter of the         *)
(* pig-farming RAG service: pipeline/ingestion.py (ingest_documents,       *)
(* ingest_from_crawler, ingest_from_text) and pipeline/text_processor.py   *)
(* (validate_document_quality, process_document); of the chains of        *)
(* core/chain.py (get_qa_chain, get_conversational_chain, query_rag); and  *)
(* of the operations around them: the settings of config.py, fetch_html of *)
(* crawler/base_crawler.py, init_vectorstore of core/vectorstore.py,       *)
(* ingest_papers of crawler/semantic_scholar_crawler.py and                *)
(* crawl_and_ingest of scheduler/daily_crawler.py.  Each subsystem has its *)
(* own specification over the shared variables; the variables of the       *)
(* subsystems a specification does not run stay at their idle values.      *)
(*                                                                         *)
(* Text is modelled run-length encoded: a string is a sequence of runs     *)
(* [c |-> class, n |-> count], the classes being                           *)
(*   "H"  a Hangul syllable, U+AC00..U+D7A3                                *)
(*   "L"  any other non-whitespace character                               *)
(*   "S"  the space character                                              *)
(*   "N"  the newline character                                            *)
(*   "T"  any other whitespace character (tab, carriage return, ...)       *)
(* strip, replace, len and the character count act on the runs as the      *)
(* Python operations act on the characters.                                *)
(***************************************************************************)
EXTENDS Integers, Sequences, FiniteSets, TLC

VARIABLES
    \* ---- one call into pipeline/ingestion.py ----
    pc,             \* position of the call: "idle", "loop", "write", "except",
                    \* "sleep", "done", "raised"
    entry,          \* entry point of the call: "none", "documents", "crawler", "text"
    crawled,        \* ingest_from_crawler: the crawled documents; validate flag
    documents,      \* ingest_documents: the chunks to ingest, in input order
    params,         \* ingest_documents: batch_size, max_retries, retry_backoff,
                    \* and whether the caller passed a vectorstore
    i,              \* ingest_documents: offset of the current batch
    attempt,        \* ingest_documents: attempt number of the current batch
    total_ingested, \* ingest_documents: running total
    result,         \* <<v>> once the call has returned v, <<>> before
    raised,         \* error raised to the caller ("none" until it raises)
    slept,          \* seconds of the time.sleep in progress (pc = "sleep")
    \* ---- the vector store, an external collaborator ----
    store,          \* persisted batches, in the order they were persisted
    plan,           \* how the store answers the writes of the current batch
    handleCalls,    \* number of get_vectorstore() calls
    addLog,         \* every add_documents call made: batch, attempt, outcome
    \* ---- one call of validate_document_quality ----
    qpc,            \* "input" or "checked"
    content,        \* the text under validation
    verdict,        \* the value returned
    \* ---- config.settings ----
    settings,       \* CHUNK_SIZE, CHUNK_OVERLAP, RETRIEVAL_TOP_K
    \* ---- one call of process_document ----
    ppc,            \* "input" or "returned"
    ptext,          \* the content passed in, a sequence of characters
    pgiven,         \* the metadata argument as the caller passed it
    pmetadata,      \* the caller's metadata mapping, as it is now
    pdocs,          \* the documents returned
    \* ---- a chain built by rag/chain.py and one call of its invoke ----
    cpc,            \* "idle", "built", "search", "llm", "done", "raised"
    chain,          \* what the chain closes over: mode, k, memory,
                    \* return_source_documents
    inputs,         \* the mapping passed to invoke
    calls,          \* every call made to the store and to the LLM, in order
    results,        \* what similarity_search_with_score returned
    retrieved,      \* what retrieve returned
    output,         \* <<r>> once invoke has returned r, <<>> before
    cfailure,       \* what made invoke raise: "none", "search", "retrieve", "llm"
    \* ---- loading config.settings and building the splitter ----
    lpc,            \* "unloaded", "loaded", "rejected", "built", "refused"
    env,            \* the environment: CHUNK_SIZE, CHUNK_OVERLAP, RETRIEVAL_TOP_K
    \* ---- one call of BaseCrawler.fetch_html ----
    fpc,            \* "idle", "get", "except", "sleep", "returned", "raised"
    fmax_retries,   \* self.max_retries
    fattempt,       \* the loop variable attempt
    gets,           \* the outcome of every GET issued, in order
    sleeps,         \* the seconds of every time.sleep, in order
    html,           \* <<v>> once fetch_html has returned v, <<>> before
    \* ---- the Qdrant collection and the callers of init_vectorstore ----
    collection,     \* exists, and the number of records stored in it
    ops,            \* every request the store has answered: caller, operation, outcome
    ipc,            \* per caller: "idle", "list", "delete", "create", "returned", "raised"
    reset,          \* per caller: the reset argument
    exists,         \* per caller: the local variable exists
    before,         \* per caller: the collection as it was when the call began
    concurrent,     \* whether calls may overlap
    \* ---- runs of ingest_papers sharing one cache file ----
    rpc,            \* "idle", "page", "walk", "save", "done", "raised"
    cache,          \* the cache file: missing, readable (a set of ids) or unreadable
    limit,          \* the limit argument
    ingested_ids,   \* the ids loaded from the cache
    new_ids,        \* the ids ingested in this run
    fetched,        \* papers ingested in this run
    poffset,        \* the local variable offset: offset of the next page
    papers,         \* the page being walked
    pos,            \* index in papers of the paper being handled
    backoff,        \* search_papers: seconds of the next rate-limit sleep
    requests,       \* every GET of this run: offset, limit, status, papers returned
    times,          \* per paperId: ingest_from_text calls over all runs
    runTimes,       \* per paperId: ingest_from_text calls in this run
    runs,           \* runs started
    \* ---- one call of crawl_and_ingest ----
    kpc,            \* "idle", "crawl", "ingest", "done"
    crawlers,       \* the registered crawlers, by name
    kindex,         \* position in crawlers of the crawler being run
    total_crawled,  \* documents crawled so far
    ktotal,         \* total_ingested of crawl_and_ingest
    steps           \* what every crawler did: crawl and ingest outcomes, in order

ingestVars == <<pc, entry, crawled, documents, params, i, attempt, total_ingested,
                result, raised, slept, store, plan, handleCalls, addLog>>
qualityVars == <<qpc, content, verdict>>
configVars == <<settings>>
chunkVars == <<ppc, ptext, pgiven, pmetadata, pdocs>>
chainVars == <<cpc, chain, inputs, calls, results, retrieved, output, cfailure>>
loadVars == <<lpc, env>>
fetchVars == <<fpc, fmax_retries, fattempt, gets, sleeps, html>>
initVars == <<collection, ops, ipc, reset, exists, before, concurrent>>
paperVars == <<rpc, cache, limit, ingested_ids, new_ids, fetched, poffset, papers, pos,
               backoff, requests, times, runTimes, runs>>
schedVars == <<kpc, crawlers, kindex, total_crawled, ktotal, steps>>
opsVars == <<loadVars, fetchVars, initVars, paperVars, schedVars>>
vars == <<ingestVars, qualityVars, configVars, chunkVars, chainVars, opsVars>>

(***************************************************************************)
(* Bounds of the model.                                                    *)
(***************************************************************************)
MaxRuns == 3        \* runs of one text
MaxDocs == 3        \* chunks passed to a direct ingest_documents call
MaxBatch == 2       \* largest batch_size of a direct call
MaxRetries == 2     \* largest finite max_retries of a direct call
MaxBackoff == 2     \* largest retry_backoff of a direct call
MaxFails == 2       \* transient write failures the store produces during one call
MaxCrawled == 2     \* documents of one ingest_from_crawler call

(***************************************************************************)
(* Text.                                                                   *)
(***************************************************************************)
Classes == {"H", "L", "S", "N", "T"}
Whitespace == {"S", "N", "T"}
RunLengths == {1, 10, 29, 30, 61, 70, 100}
Runs == [c : Classes, n : RunLengths]
Texts == UNION {[1..k -> Runs] : k \in 0..MaxRuns}

RECURSIVE len(_)
len(s) == IF s = <<>> THEN 0 ELSE Head(s).n + len(Tail(s))

RECURSIVE lstrip(_)
lstrip(s) ==
    IF s = <<>> THEN <<>>
    ELSE IF Head(s).c \in Whitespace THEN lstrip(Tail(s)) ELSE s

RECURSIVE rstrip(_)
rstrip(s) ==
    IF s = <<>> THEN <<>>
    ELSE IF s[Len(s)].c \in Whitespace THEN rstrip(SubSeq(s, 1, Len(s) - 1)) ELSE s

strip(s) == rstrip(lstrip(s))

\* s.replace(<one character of class c>, "")
replace(s, c) == SelectSeq(s, LAMBDA r : r.c # c)

\* sum(1 for ch in s if ch is of a class in cs)
RECURSIVE count(_, _)
count(s, cs) ==
    IF s = <<>> THEN 0
    ELSE (IF Head(s).c \in cs THEN Head(s).n ELSE 0) + count(Tail(s), cs)

MIN_LENGTH == 100
\* korean_ratio < 0.3, on the integers: korean_chars / total_chars < 3 / 10
RatioTooLow(korean_chars, total_chars) == 10 * korean_chars < 3 * total_chars

validate_document_quality(text) ==
    IF len(strip(text)) < MIN_LENGTH THEN FALSE
    ELSE LET korean_chars == count(text, {"H"})
             total_chars == len(replace(replace(text, "S"), "N"))
         IN  IF total_chars > 0 /\ RatioTooLow(korean_chars, total_chars)
             THEN FALSE
             ELSE TRUE

(***************************************************************************)
(* process_document: the stripped content, split by the library splitter   *)
(* into `pieces` chunks (at least one for a non-empty text), each tagged   *)
(* with its position.  `doc` names the document the chunk comes from.      *)
(***************************************************************************)
process_document(text, pieces, doc) ==
    IF strip(text) = <<>> THEN <<>>
    ELSE [k \in 1..pieces |->
            [doc |-> doc, chunk_index |-> k - 1, total_chunks |-> pieces]]

(***************************************************************************)
(* Text as characters.  For the splitter a string is a sequence of         *)
(* one-character strings.                                                  *)
(***************************************************************************)
MaxLen == 5         \* characters of one text passed to process_document

\* a letter, a full stop, a space, a newline
Alphabet == {"a", ".", " ", "\n"}
WhitespaceChars == {" ", "\n"}
CharTexts == UNION {[1..n -> Alphabet] : n \in 0..MaxLen}

Drop(s, n) == SubSeq(s, n + 1, Len(s))
StartsWith(s, p) == Len(p) <= Len(s) /\ SubSeq(s, 1, Len(p)) = p
EndsWith(s, p) == Len(p) <= Len(s) /\ Drop(s, Len(s) - Len(p)) = p

\* "".join(parts), by halves
RECURSIVE Concat(_)
Concat(parts) ==
    IF parts = <<>> THEN <<>>
    ELSE IF Len(parts) = 1 THEN parts[1]
    ELSE LET half == Len(parts) \div 2
         IN  Concat(SubSeq(parts, 1, half))
                 \o Concat(SubSeq(parts, half + 1, Len(parts)))

RECURSIVE str_lstrip(_)
str_lstrip(s) ==
    IF s # <<>> /\ Head(s) \in WhitespaceChars THEN str_lstrip(Tail(s)) ELSE s

RECURSIVE str_rstrip(_)
str_rstrip(s) ==
    IF s # <<>> /\ s[Len(s)] \in WhitespaceChars
    THEN str_rstrip(SubSeq(s, 1, Len(s) - 1))
    ELSE s

\* str.strip()
str_strip(s) == str_rstrip(str_lstrip(s))

(***************************************************************************)
(* get_text_splitter: a RecursiveCharacterTextSplitter built from the      *)
(* settings and the separator list.  The third separator is written here   *)
(* as the three characters the source file holds for it.                   *)
(***************************************************************************)
separators ==
    << <<"\n", "\n">>, <<"\n">>, <<"a~", "EUR", "lq">>, <<".", " ">>,
       <<"!", " ">>, <<"?", " ">>, <<" ">>, <<>> >>

\* chunk_size and chunk_overlap left out of the constructor call: the
\* library's defaults apply
get_text_splitter_defaults(s) ==
    [chunk_size |-> 4000, chunk_overlap |-> 200, separators |-> separators]

\* chunk_overlap left out of the call, no overlap asked for
get_text_splitter_no_overlap(s) ==
    [chunk_size |-> s.CHUNK_SIZE, chunk_overlap |-> 0, separators |-> separators]

get_text_splitter(s) ==
    [chunk_size |-> s.CHUNK_SIZE, chunk_overlap |-> s.CHUNK_OVERLAP,
     separators |-> separators]

(***************************************************************************)
(* RecursiveCharacterTextSplitter.split_text, the library routine the      *)
(* splitter runs: keep_separator and strip_whitespace are left at their    *)
(* defaults (True), so a separator stays at the head of the fragment that  *)
(* follows it, fragments are joined with the empty string, and every       *)
(* chunk is stripped.                                                      *)
(***************************************************************************)
\* re.search(re.escape(p), s)
re_search(p, s) == \E k \in 0..Len(s) : StartsWith(Drop(s, k), p)

\* re.split with the separator captured, each separator glued to the text
\* that follows it
RECURSIVE Scan(_, _, _, _)
Scan(rest, sep, cur, acc) ==
    IF rest = <<>> THEN Append(acc, cur)
    ELSE IF StartsWith(rest, sep)
         THEN Scan(Drop(rest, Len(sep)), sep, sep, Append(acc, cur))
         ELSE Scan(Tail(rest), sep, Append(cur, Head(rest)), acc)

NonEmpty(parts) == SelectSeq(parts, LAMBDA p : p # <<>>)

split_text_with_regex(s, sep) ==
    IF sep = <<>>
    THEN [k \in 1..Len(s) |-> <<s[k]>>]
    ELSE NonEmpty(Scan(s, sep, <<>>, <<>>))

\* _join_docs: zero or one chunk
join_docs(current_doc) ==
    LET joined == str_strip(Concat(current_doc))
    IN  IF joined = <<>> THEN <<>> ELSE <<joined>>

\* lengths[k]: the characters of the first k fragments together
PrefixLen(splits) == [k \in 0..Len(splits) |-> Len(Concat(SubSeq(splits, 1, k)))]

First(S) == CHOOSE k \in S : \A h \in S : k <= h

\* _merge_splits with the window current_doc = splits[lo..hi] (empty when
\* hi < lo) and total = lengths[hi] - lengths[lo - 1].  The for loop appends
\* fragments until one, d = splits[j], does not fit a non-empty window:
\*     total + len(d) > chunk_size and len(current_doc) > 0
\* then the window is emitted, and the while loop drops fragments from its
\* front as long as
\*     total > chunk_overlap or (total + len(d) > chunk_size and total > 0)
\* and d is appended to what stays.
RECURSIVE merge_loop(_, _, _, _, _, _)
merge_loop(splits, lengths, lo, hi, merged, sp) ==
    LET Total(x, y) == lengths[y] - lengths[x - 1]
        full == {j \in (hi + 1)..Len(splits) :
                    j - 1 >= lo /\ Total(lo, j) > sp.chunk_size}
    IN  IF full = {}
        THEN merged \o join_docs(SubSeq(splits, lo, Len(splits)))
        ELSE LET j == First(full)
                 dlen == Len(splits[j])
                 stays == {x \in lo..j :
                             ~ \/ Total(x, j - 1) > sp.chunk_overlap
                               \/ (Total(x, j - 1) + dlen > sp.chunk_size
                                       /\ Total(x, j - 1) > 0)}
             IN  merge_loop(splits, lengths, First(stays), j,
                            merged \o join_docs(SubSeq(splits, lo, j - 1)), sp)

merge_splits(splits, sp) == merge_loop(splits, PrefixLen(splits), 1, 0, <<>>, sp)

\* index of the separator _split_text picks: the first that is empty or
\* occurs in the text (0: none)
PickSeparator(s, seps) ==
    LET hits == {k \in 1..Len(seps) : seps[k] = <<>> \/ re_search(seps[k], s)}
    IN  IF hits = {} THEN 0 ELSE First(hits)

\* _split_text: the fragments shorter than chunk_size are collected and
\* merged; a fragment that is not is split by the separators that are left,
\* or kept whole when none is left
RECURSIVE split_text_rec(_, _, _), split_walk(_, _, _, _)
split_text_rec(s, seps, sp) ==
    LET k == PickSeparator(s, seps)
        separator == IF k = 0 THEN seps[Len(seps)] ELSE seps[k]
        new_separators == IF k = 0 \/ seps[k] = <<>> THEN <<>> ELSE Drop(seps, k)
    IN  split_walk(split_text_with_regex(s, separator), <<>>, new_separators, sp)

\* the loop of _split_text over the fragments, from the first of `splits` on
split_walk(splits, final_chunks, new_separators, sp) ==
    LET long == {j \in 1..Len(splits) : ~(Len(splits[j]) < sp.chunk_size)}
    IN  IF long = {}
        THEN final_chunks \o merge_splits(splits, sp)
        ELSE LET j == First(long)
                 s == splits[j]
             IN  split_walk(Drop(splits, j),
                            final_chunks
                                \o merge_splits(SubSeq(splits, 1, j - 1), sp)
                                \o (IF new_separators = <<>> THEN <<s>>
                                    ELSE split_text_rec(s, new_separators, sp)),
                            new_separators, sp)

split_text(s, sp) == split_text_rec(s, sp.separators, sp)

(***************************************************************************)
(* process_document on characters.  A metadata mapping is a function from  *)
(* key names to values; the metadata argument is [is_none, map].  The      *)
(* value is the documents returned and the caller's mapping as the call    *)
(* leaves it.                                                              *)
(***************************************************************************)
EmptyDict == [k \in {} |-> 0]

\* dict.update / {**m, **u}
dict_update(m, u) ==
    [k \in DOMAIN m \cup DOMAIN u |-> IF k \in DOMAIN u THEN u[k] ELSE m[k]]

\* Python truth of the metadata argument
Truthy(metadata) == ~metadata.is_none /\ DOMAIN metadata.map # {}

Position(chunks, k) ==
    [chunk_index |-> k - 1, total_chunks |-> Len(chunks), chunk_size |-> Len(chunks[k])]

\* doc_metadata = metadata, without the copy: every document shares the
\* caller's mapping, which ends as the last update left it
tag_chunks_in_place(chunks, metadata) ==
    LET shared == IF Truthy(metadata) /\ chunks # <<>>
                  THEN dict_update(metadata.map, Position(chunks, Len(chunks)))
                  ELSE metadata.map
    IN  [documents |->
            [k \in 1..Len(chunks) |->
                [page_content |-> chunks[k],
                 metadata |-> IF Truthy(metadata) THEN shared
                              ELSE dict_update(EmptyDict, Position(chunks, k))]],
         caller |-> shared]

\* the loop stops one chunk early
tag_chunks_drop_last(chunks, metadata) ==
    [documents |->
        [k \in 1..(Len(chunks) - 1) |->
            [page_content |-> chunks[k],
             metadata |-> dict_update(IF Truthy(metadata) THEN metadata.map
                                                          ELSE EmptyDict,
                                      Position(chunks, k))]],
     caller |-> metadata.map]

\* the loop over enumerate(chunks)
tag_chunks(chunks, metadata) ==
    [documents |->
        [k \in 1..Len(chunks) |->
            [page_content |-> chunks[k],
             metadata |-> dict_update(IF Truthy(metadata) THEN metadata.map
                                                          ELSE EmptyDict,
                                      Position(chunks, k))]],
     caller |-> metadata.map]

process_document_text(text, metadata, sp) ==
    LET stripped == str_strip(text)
    IN  IF stripped = <<>>
        THEN [documents |-> <<>>, caller |-> metadata.map]
        ELSE tag_chunks(split_text(stripped, sp), metadata)

MaxChunkSize == 3   \* largest CHUNK_SIZE of the small texts

Settings(size, overlap, top_k) ==
    [CHUNK_SIZE |-> size, CHUNK_OVERLAP |-> overlap, RETRIEVAL_TOP_K |-> top_k]

\* Chunk settings with 0 <= CHUNK_OVERLAP < CHUNK_SIZE
ChunkSettings ==
    {Settings(q[1], q[2], 1) :
        q \in {r \in (1..MaxChunkSize) \X (0..MaxChunkSize) : r[2] < r[1]}}

\* Metadata arguments: none, empty, a title, a title with stale position keys
Metadatas ==
    { [is_none |-> TRUE, map |-> EmptyDict],
      [is_none |-> FALSE, map |-> EmptyDict],
      [is_none |-> FALSE, map |-> [title |-> 7]],
      [is_none |-> FALSE,
       map |-> [title |-> 7, chunk_index |-> 9, total_chunks |-> 9, chunk_size |-> 9]] }

\* Texts passed with each of the metadata arguments
TaggedTexts == {<<"a">>, <<"a", " ", "a">>, <<"a", ".", " ", "a", "a">>, <<" ">>}

\* 250 characters with no whitespace, chunked at 100 with an overlap of 20
ScenarioText == [k \in 1..250 |-> IF k % 7 = 0 THEN "." ELSE "a"]
ScenarioSettings == Settings(100, 20, 1)

(***************************************************************************)
(* rag/chain.py.  A string is a sequence of pieces here: the question, a   *)
(* history turn, the text of a chunk and the fixed parts of the templates  *)
(* are one piece each.  An optional argument is <<>> (None) or <<v>>; an   *)
(* optional list is [is_none, turns].                                      *)
(***************************************************************************)
MaxK == 2           \* largest top_k and largest RETRIEVAL_TOP_K

NoList == [is_none |-> TRUE, turns |-> <<>>]
List(turns) == [is_none |-> FALSE, turns |-> turns]

\* sep.join(parts)
RECURSIVE Join(_, _)
Join(sep, parts) ==
    IF parts = <<>> THEN <<>>
    ELSE IF Len(parts) = 1 THEN <<parts[1]>>
    ELSE <<parts[1], sep>> \o Join(sep, Tail(parts))

\* the literal between the question and the rendered history
HISTORY_PREFIX == "\n\n(previous conversation): "

\* k = settings.RETRIEVAL_TOP_K, whatever top_k is
TopKDefaultOnly(top_k, s) == s.RETRIEVAL_TOP_K

\* k = top_k if top_k is not None else settings.RETRIEVAL_TOP_K
TopK(top_k, s) == IF top_k # <<>> THEN top_k[1] ELSE s.RETRIEVAL_TOP_K

\* inputs.get("chat_history") or []
qa_history(ins) == ins.chat_history.turns

\* memory or inputs.get("chat_history") or []
conversational_history_memory_first(ins, memory) ==
    IF memory.turns # <<>> THEN memory.turns ELSE ins.chat_history.turns

\* inputs.get("chat_history") or memory or []
conversational_history(ins, memory) ==
    IF ins.chat_history.turns # <<>> THEN ins.chat_history.turns ELSE memory.turns

History(ch, ins) ==
    IF ch.mode = "qa" THEN qa_history(ins) ELSE conversational_history(ins, ch.memory)

\* question if not history else f"{question}\n\n...: " + " | ".join(history)
retrieval_query(question, history) ==
    IF history = <<>> THEN <<question>>
    ELSE <<question, HISTORY_PREFIX>> \o Join(" | ", history)

\* "\n\n".join(doc.page_content for doc in docs)
Context(docs) == Join("\n\n", [j \in 1..Len(docs) |-> docs[j].page_content])

\* prompt.format(context=context, question=question), QA_PROMPT_TEMPLATE
Format(context, question) ==
    <<"TEMPLATE_HEAD">> \o context \o <<"TEMPLATE_QUESTION">> \o question
        \o <<"TEMPLATE_TAIL">>

\* the prompt rendered with the retrieval query in place of the question
FormattedWithQuery(ch, ins, docs) ==
    Format(Context(docs), retrieval_query(ins.question, History(ch, ins)))

Formatted(ch, ins, docs) == Format(Context(docs), <<ins.question>>)

HumanMessage(text) == [role |-> "human", content |-> text]

\* what llm.invoke receives: the prompt, or one HumanMessage per history
\* turn and a last one with the prompt
LlmInput(ch, ins, docs) ==
    IF ch.mode = "qa"
    THEN [to |-> "llm", text |-> Formatted(ch, ins, docs)]
    ELSE [to |-> "llm",
          messages |->
              [j \in 1..Len(History(ch, ins)) |-> HumanMessage(<<History(ch, ins)[j]>>)]
                  \o <<HumanMessage(Formatted(ch, ins, docs))>>]

(***************************************************************************)
(* The store's answer to similarity_search_with_score: a list of items.    *)
(* An item has a shape: "pair" is a 2-tuple (doc, score), "tuple1" and     *)
(* "tuple3" are tuples of 1 and 3 elements, "bare" is not a tuple.  The    *)
(* first element of a pair is a Document with a metadata mapping, a        *)
(* Document whose metadata is None, an object without a metadata           *)
(* attribute, or a value that takes no attribute at all (None, a string).  *)
(***************************************************************************)
NoMetadata == [is_none |-> TRUE, map |-> EmptyDict]

Doc(page_content, has_metadata, settable, metadata) ==
    [page_content |-> page_content, has_metadata |-> has_metadata,
     settable |-> settable, metadata |-> metadata]

StoredDocs ==
    { Doc("c1", TRUE, TRUE, [is_none |-> FALSE, map |-> [title |-> 7, score |-> 0]]),
      Doc("c2", TRUE, TRUE, NoMetadata),
      Doc("c3", FALSE, TRUE, NoMetadata),
      Doc("c4", FALSE, FALSE, NoMetadata) }

Scores == {1, 2}

Item(shape, doc, score) == [shape |-> shape, doc |-> doc, score |-> score]

Items ==
    {Item("pair", doc, score) : doc \in StoredDocs, score \in Scores}
        \cup {Item(shape, Doc("c2", TRUE, TRUE, NoMetadata), 1) :
                 shape \in {"tuple1", "tuple3", "bare"}}

\* isinstance(item, tuple) and len(item) == 2
IsPair(item) == item.shape = "pair"

\* What the store may answer when asked for k results: at most k items, the
\* pairs among them by descending score.
Responses(k) ==
    {r \in UNION {[1..n -> Items] : n \in 0..k} :
        \A a, b \in 1..Len(r) :
            (a < b /\ IsPair(r[a]) /\ IsPair(r[b])) => r[a].score >= r[b].score}

\* {"score": score, **doc.metadata}: an earlier score wins
attach_score_keep_old(doc, score) ==
    [doc EXCEPT !.has_metadata = TRUE,
                !.metadata = [is_none |-> FALSE,
                              map |-> dict_update([score |-> score], doc.metadata.map)]]

\* doc.metadata = {**doc.metadata, "score": score}, or {"score": score} for
\* a doc without metadata
attach_score(doc, score) ==
    [doc EXCEPT !.has_metadata = TRUE,
                !.metadata = [is_none |-> FALSE,
                              map |-> dict_update(IF doc.has_metadata /\ ~doc.metadata.is_none
                                                  THEN doc.metadata.map ELSE EmptyDict,
                                                  [score |-> score])]]

\* the loop of retrieve left at the first unexpected item
RECURSIVE retrieve_break(_, _)
retrieve_break(items, docs) ==
    IF items = <<>> THEN [raised |-> FALSE, docs |-> docs]
    ELSE IF ~IsPair(Head(items)) THEN [raised |-> FALSE, docs |-> docs]
    ELSE IF ~Head(items).doc.settable THEN [raised |-> TRUE, docs |-> docs]
    ELSE retrieve_break(Tail(items),
                        Append(docs, attach_score(Head(items).doc, Head(items).score)))

\* the loop of retrieve over the items: an item that is not a pair is
\* skipped; setting the metadata of a value that takes no attribute raises
RECURSIVE retrieve(_, _)
retrieve(items, docs) ==
    IF items = <<>> THEN [raised |-> FALSE, docs |-> docs]
    ELSE IF ~IsPair(Head(items)) THEN retrieve(Tail(items), docs)
    ELSE IF ~Head(items).doc.settable THEN [raised |-> TRUE, docs |-> docs]
    ELSE retrieve(Tail(items),
                  Append(docs, attach_score(Head(items).doc, Head(items).score)))

\* Arguments of the calls
TopKs == {<<>>} \cup {<<n>> : n \in 1..MaxK}
ChatHistories == {NoList, List(<<>>), List(<<"t1">>), List(<<"t1", "t2">>)}
Memories == {NoList, List(<<>>), List(<<"m1", "m2">>)}

(***************************************************************************)
(* ingest_documents.                                                       *)
(***************************************************************************)
DEFAULT_BATCH_SIZE == 100
DEFAULT_MAX_RETRIES == -1
DEFAULT_RETRY_BACKOFF == 1

Min(a, b) == IF a < b THEN a ELSE b

\* Python's s[a:b] for 0 <= a
Slice(s, a, b) == SubSeq(s, a + 1, Min(b, Len(s)))

\* batch = documents[i:batch_size], the offset forgotten in the upper index
BatchFromStart(docs, offset, batch_size) == Slice(docs, offset, batch_size)

\* batch = documents[i:i + batch_size]
Batch(docs, offset, batch_size) == Slice(docs, offset, offset + batch_size)
batch == Batch(documents, i, params.batch_size)

\* total_ingested += batch_size, whatever the length of the batch
CountedFull(total, b) == total + params.batch_size

\* total_ingested += len(batch)
Counted(total, b) == total + Len(b)

\* if max_retries != -1 and attempt >= max_retries: raise
GivesUp(max_retries, n) == max_retries # -1 /\ n >= max_retries

\* time.sleep(retry_backoff), the same delay every time
BackoffFlat(retry_backoff, n) == retry_backoff

\* time.sleep(retry_backoff * attempt)
BackoffDelay(retry_backoff, n) == retry_backoff * n

\* ingest_documents with the store handle obtained before the empty-input test
EnterHandleFirst(docs, p) ==
    /\ documents' = docs
    /\ params' = p
    /\ handleCalls' = IF p.given THEN handleCalls ELSE handleCalls + 1
    /\ IF docs = <<>>
       THEN result' = <<0>> /\ pc' = "done"
       ELSE pc' = "loop" /\ UNCHANGED result
    /\ i' = 0
    /\ total_ingested' = 0

\* What the caller of ingest_documents gets first: the empty-input return, or
\* the store handle and the start of the batch loop.
Enter(docs, p) ==
    /\ documents' = docs
    /\ params' = p
    /\ IF docs = <<>>
       THEN /\ result' = <<0>>
            /\ pc' = "done"
            /\ UNCHANGED handleCalls
       ELSE /\ handleCalls' = IF p.given THEN handleCalls ELSE handleCalls + 1
            /\ pc' = "loop"
            /\ UNCHANGED result
    /\ i' = 0
    /\ total_ingested' = 0

\* A direct call ingest_documents(documents, vectorstore, batch_size, max_retries,
\* retry_backoff).
IngestDocumentsCall ==
    /\ pc = "idle"
    /\ \E n \in 0..MaxDocs, bs \in 1..MaxBatch, mr \in -1..MaxRetries,
          rb \in 1..MaxBackoff, given \in BOOLEAN :
          Enter([k \in 1..n |-> [doc |-> 0, chunk_index |-> k - 1, total_chunks |-> n]],
                [batch_size |-> bs, max_retries |-> mr, retry_backoff |-> rb,
                 given |-> given])
    /\ entry' = "documents"
    /\ UNCHANGED <<crawled, attempt, raised, slept, store, plan, addLog, qualityVars, configVars, chunkVars, chainVars, opsVars>>

FailedWrites == Len(SelectSeq(addLog, LAMBDA e : e.err = "transient"))

\* for i in range(0, len(documents), batch_size): the next batch; attempt = 1.
\* The store's answers to this batch's writes are drawn here: it fails
\* plan.fails times with a transient error and then succeeds, or it fails every
\* time with a permanent error.
NextBatch ==
    /\ pc = "loop"
    /\ i < Len(documents)
    /\ attempt' = 1
    /\ \E f \in 0..(MaxFails - FailedWrites), perm \in BOOLEAN :
          /\ perm => f = 0
          /\ plan' = [fails |-> f, permanent |-> perm]
    /\ pc' = "write"
    /\ UNCHANGED <<entry, crawled, documents, params, i, total_ingested, result, raised,
                   slept, store, handleCalls, addLog, qualityVars, configVars, chunkVars, chainVars, opsVars>>

\* the loop is exhausted: return total_ingested
Return ==
    /\ pc = "loop"
    /\ i >= Len(documents)
    /\ result' = <<total_ingested>>
    /\ pc' = "done"
    /\ UNCHANGED <<entry, crawled, documents, params, i, attempt, total_ingested, raised,
                   slept, store, plan, handleCalls, addLog, qualityVars, configVars, chunkVars, chainVars, opsVars>>

Logged(err) == [lo |-> i, batch |-> batch, attempt |-> attempt, err |-> err]

\* vectorstore.add_documents(batch) returns: the batch is persisted, the total
\* grows, and the loop goes on to the next offset.
AddDocumentsOk ==
    /\ pc = "write"
    /\ ~plan.permanent /\ attempt > plan.fails
    /\ store' = Append(store, batch)
    /\ addLog' = Append(addLog, Logged("none"))
    /\ total_ingested' = Counted(total_ingested, batch)
    /\ i' = i + params.batch_size
    /\ pc' = "loop"
    /\ UNCHANGED <<entry, crawled, documents, params, attempt, result, raised, slept,
                   plan, handleCalls, qualityVars, configVars, chunkVars, chainVars, opsVars>>

\* vectorstore.add_documents(batch) raises.  A permanent error (dimension
\* mismatch, invalid collection) persists nothing; a transient one (network
\* drop, timeout) is raised either before or after the store applied the write.
AddDocumentsFail ==
    /\ pc = "write"
    /\ plan.permanent \/ attempt <= plan.fails
    /\ \E applied \in BOOLEAN :
          /\ plan.permanent => ~applied
          /\ store' = IF applied THEN Append(store, batch) ELSE store
    /\ addLog' = Append(addLog, Logged(IF plan.permanent THEN "permanent" ELSE "transient"))
    /\ pc' = "except"
    /\ UNCHANGED <<entry, crawled, documents, params, i, attempt, total_ingested, result,
                   raised, slept, plan, handleCalls, qualityVars, configVars, chunkVars, chainVars, opsVars>>

\* except Exception: the ceiling is reached, and the error is logged and
\* swallowed: the loop goes on to the next batch
AbortSwallowed ==
    /\ pc = "except"
    /\ GivesUp(params.max_retries, attempt)
    /\ i' = i + params.batch_size
    /\ pc' = "loop"
    /\ UNCHANGED <<entry, crawled, documents, params, attempt, total_ingested, result,
                   raised, slept, store, plan, handleCalls, addLog, qualityVars, configVars, chunkVars, chainVars, opsVars>>

\* except Exception: the ceiling is reached; the error is re-raised, through the
\* outer handler, to the caller.
Abort ==
    /\ pc = "except"
    /\ GivesUp(params.max_retries, attempt)
    /\ raised' = addLog[Len(addLog)].err
    /\ pc' = "raised"
    /\ UNCHANGED <<entry, crawled, documents, params, i, attempt, total_ingested, result,
                   slept, store, plan, handleCalls, addLog, qualityVars, configVars, chunkVars, chainVars, opsVars>>

\* except Exception: below the ceiling; time.sleep(retry_backoff * attempt).
\* Against a store that fails for good the retries of an unlimited ceiling are
\* followed for MaxFails + 1 attempts.
Backoff ==
    /\ pc = "except"
    /\ ~GivesUp(params.max_retries, attempt)
    /\ attempt <= MaxFails
    /\ slept' = BackoffDelay(params.retry_backoff, attempt)
    /\ pc' = "sleep"
    /\ UNCHANGED <<entry, crawled, documents, params, i, attempt, total_ingested, result,
                   raised, store, plan, handleCalls, addLog, qualityVars, configVars, chunkVars, chainVars, opsVars>>

\* the sleep is over: attempt += 1 and the write is tried again
Retry ==
    /\ pc = "sleep"
    /\ attempt' = attempt + 1
    /\ slept' = 0
    /\ pc' = "write"
    /\ UNCHANGED <<entry, crawled, documents, params, i, total_ingested, result, raised,
                   store, plan, handleCalls, addLog, qualityVars, configVars, chunkVars, chainVars, opsVars>>

(***************************************************************************)
(* ingest_from_crawler and ingest_from_text.                               *)
(***************************************************************************)
Hangul(n) == [c |-> "H", n |-> n]
Latin(n) == [c |-> "L", n |-> n]
Space(n) == [c |-> "S", n |-> n]
\* Texts a crawler or a caller supplies: acceptable Korean text, too short,
\* mostly foreign, blank.
SampleTexts == { <<Hangul(100)>>, <<Hangul(30)>>, <<Hangul(10), Latin(100)>>,
                 <<Space(10)>> }
\* Numbers of chunks the splitter makes of one crawled document.
PieceCounts == {1, 2}
CrawledDocuments == [content : SampleTexts, pieces : PieceCounts]

DefaultParams(given) ==
    [batch_size |-> DEFAULT_BATCH_SIZE, max_retries |-> DEFAULT_MAX_RETRIES,
     retry_backoff |-> DEFAULT_RETRY_BACKOFF, given |-> given]

\* the quality check left out of the loop
SkippedNever(validate_quality, text) == FALSE

\* if validate_quality and not validate_document_quality(content): continue
Skipped(validate_quality, text) == validate_quality /\ ~validate_document_quality(text)

\* for crawled_doc in crawled_docs: ... all_chunks.extend(chunks), from document d on
RECURSIVE all_chunks(_, _, _)
all_chunks(docs, validate_quality, d) ==
    IF d > Len(docs) THEN <<>>
    ELSE (IF Skipped(validate_quality, docs[d].content) THEN <<>>
          ELSE process_document(docs[d].content, docs[d].pieces, d))
         \o all_chunks(docs, validate_quality, d + 1)

\* What ingest_from_crawler and ingest_from_text do with the chunks: call
\* ingest_documents when there are some, return 0 otherwise.
IngestChunks(chunks, given) ==
    IF chunks # <<>>
    THEN Enter(chunks, DefaultParams(given))
    ELSE /\ result' = <<0>>
         /\ pc' = "done"
         /\ UNCHANGED <<documents, params, i, total_ingested, handleCalls>>

IngestFromCrawlerCall ==
    /\ pc = "idle"
    /\ \E docs \in UNION {[1..k -> CrawledDocuments] : k \in 0..MaxCrawled},
          validate_quality \in BOOLEAN, given \in BOOLEAN :
          /\ crawled' = [docs |-> docs, validate_quality |-> validate_quality]
          /\ IngestChunks(all_chunks(docs, validate_quality, 1), given)
    /\ entry' = "crawler"
    /\ UNCHANGED <<attempt, raised, slept, store, plan, addLog, qualityVars, configVars, chunkVars, chainVars, opsVars>>

\* ingest_from_text(text, metadata, vectorstore): one document, never validated
IngestFromTextCall ==
    /\ pc = "idle"
    /\ \E text \in SampleTexts \cup {<<>>}, pieces \in {1, DEFAULT_BATCH_SIZE + 1},
          given \in BOOLEAN :
          /\ crawled' = [docs |-> <<[content |-> text, pieces |-> pieces]>>,
                         validate_quality |-> FALSE]
          /\ IngestChunks(process_document(text, pieces, 1), given)
    /\ entry' = "text"
    /\ UNCHANGED <<attempt, raised, slept, store, plan, addLog, qualityVars, configVars, chunkVars, chainVars, opsVars>>

(***************************************************************************)
(* ingest_from_crawler and ingest_from_text on characters: the chunks are  *)
(* those of process_document, metadata included.  "H" stands for a Hangul  *)
(* syllable.  RunsOf gives the runs of a character text, on which          *)
(* validate_document_quality is defined.                                   *)
(***************************************************************************)
CharClass(ch) ==
    IF ch = "H" THEN "H" ELSE IF ch = " " THEN "S" ELSE IF ch = "\n" THEN "N" ELSE "L"

RunsOf(text) ==
    LET starts == {k \in 1..Len(text) :
                      k = 1 \/ CharClass(text[k]) # CharClass(text[k - 1])}
        n == Cardinality(starts)
        start(j) == CHOOSE k \in starts : Cardinality({h \in starts : h <= k}) = j
        end(j) == IF j = n THEN Len(text) ELSE start(j + 1) - 1
    IN  [j \in 1..n |-> [c |-> CharClass(text[start(j)]), n |-> end(j) - start(j) + 1]]

\* 120 Hangul syllables, and a text too short to pass the filter
KoreanText == [k \in 1..120 |-> "H"]
ShortText == <<"a", " ", "a">>

\* CrawledDocument(title, content, url, source, metadata): metadata or {}
\* (values of metadata keys are numbers: 1, 2, 3 name a title, a url, a source)
CrawledDocument(doc_content, metadata) ==
    [title |-> 1, content |-> doc_content, url |-> 2, source |-> 3,
     metadata |-> IF Truthy(metadata) THEN metadata.map ELSE EmptyDict]

\* the free-form metadata of a crawled document: none, a category, a title
FreeForm ==
    { [is_none |-> TRUE, map |-> EmptyDict],
      [is_none |-> FALSE, map |-> [category |-> 1]],
      [is_none |-> FALSE, map |-> [title |-> 9]] }

CrawledDocs == {CrawledDocument(c, m) : c \in {KoreanText, ShortText}, m \in FreeForm}

\* the lists passed to ingest_from_crawler: no, one or two documents
CrawledLists ==
    {<<>>} \cup {<<d>> : d \in CrawledDocs} \cup {<<d, e>> : d, e \in CrawledDocs}

\* metadata = {"title": ..., "url": ..., "source": ..., "published_date": ...,
\*             "crawled_at": ..., **crawled_doc.metadata}
crawler_metadata(crawled_doc) ==
    dict_update([title |-> crawled_doc.title, url |-> crawled_doc.url,
                 source |-> crawled_doc.source, published_date |-> 0, crawled_at |-> 0],
                crawled_doc.metadata)

\* for crawled_doc in crawled_docs: ... all_chunks.extend(chunks), from document d on
RECURSIVE crawler_chunks(_, _, _, _)
crawler_chunks(docs, validate_quality, sp, d) ==
    IF d > Len(docs) THEN <<>>
    ELSE (IF Skipped(validate_quality, RunsOf(docs[d].content)) THEN <<>>
          ELSE process_document_text(
                   docs[d].content,
                   [is_none |-> FALSE, map |-> crawler_metadata(docs[d])],
                   sp).documents)
         \o crawler_chunks(docs, validate_quality, sp, d + 1)

\* metadata or {}
or_empty(metadata) ==
    [is_none |-> FALSE, map |-> IF Truthy(metadata) THEN metadata.map ELSE EmptyDict]

\* Metadata arguments of ingest_from_text: those of process_document, and one
\* with title, url and source
TextMetadatas ==
    Metadatas \cup {[is_none |-> FALSE, map |-> [title |-> 7, url |-> 8, source |-> 9]]}

IngestFromCrawlerDocs ==
    /\ pc = "idle"
    /\ \E docs \in CrawledLists, validate_quality \in BOOLEAN, given \in BOOLEAN :
          /\ crawled' = [docs |-> docs, validate_quality |-> validate_quality]
          /\ IngestChunks(crawler_chunks(docs, validate_quality,
                                         get_text_splitter(settings), 1), given)
    /\ entry' = "crawler"
    /\ UNCHANGED <<attempt, raised, slept, store, plan, addLog, qualityVars, configVars,
                   chunkVars, chainVars, opsVars>>

IngestFromTextDocs ==
    /\ pc = "idle"
    /\ \E text \in {KoreanText, ShortText, <<" ">>}, metadata \in TextMetadatas,
          given \in BOOLEAN :
          /\ crawled' = [docs |-> <<[content |-> text, metadata |-> metadata]>>,
                         validate_quality |-> FALSE]
          /\ IngestChunks(process_document_text(text, or_empty(metadata),
                                                get_text_splitter(settings)).documents,
                          given)
    /\ entry' = "text"
    /\ UNCHANGED <<attempt, raised, slept, store, plan, addLog, qualityVars, configVars,
                   chunkVars, chainVars, opsVars>>

IngestIdle ==
    /\ pc = "idle" /\ entry = "none"
    /\ crawled = [docs |-> <<>>, validate_quality |-> TRUE]
    /\ documents = <<>>
    /\ params = DefaultParams(FALSE)
    /\ i = 0 /\ attempt = 0 /\ total_ingested = 0
    /\ result = <<>> /\ raised = "none" /\ slept = 0
    /\ store = <<>> /\ plan = [fails |-> 0, permanent |-> FALSE]
    /\ handleCalls = 0 /\ addLog = <<>>

QualityIdle == qpc = "input" /\ content = <<>> /\ verdict = FALSE

ConfigIdle == settings = Settings(1, 0, 1)

ChunkIdle ==
    /\ ppc = "input" /\ ptext = <<>>
    /\ pgiven = [is_none |-> TRUE, map |-> EmptyDict]
    /\ pmetadata = EmptyDict
    /\ pdocs = <<>>

ChainIdle ==
    /\ cpc = "idle"
    /\ chain = [mode |-> "qa", top_k |-> <<>>, k |-> 1, memory |-> NoList,
                return_source_documents |-> TRUE]
    /\ inputs = [question |-> "q", chat_history |-> NoList]
    /\ calls = <<>> /\ results = <<>> /\ retrieved = <<>> /\ output = <<>>
    /\ cfailure = "none"

(***************************************************************************)
(* Loading the configuration (settings = Settings() in config.py) and      *)
(* building the splitter from it.  A value of the environment is missing,  *)
(* a text that is no integer, or an integer.                               *)
(***************************************************************************)
MaxEnv == 2         \* largest integer in the environment

EnvValue(kind, value) == [kind |-> kind, value |-> value]
EnvValues ==
    {EnvValue("missing", 0), EnvValue("text", 0)}
        \cup {EnvValue("int", n) : n \in -1..MaxEnv}
Envs ==
    [CHUNK_SIZE : EnvValues, CHUNK_OVERLAP : EnvValues,
     RETRIEVAL_TOP_K : {EnvValue("missing", 0), EnvValue("int", 1)}]

\* X: int = Field(..., env="X"): required, and coerced to an integer
IntField(e, key) == e[key].kind = "int"

\* Settings(): every field has to validate
Loads(e) == \A key \in {"CHUNK_SIZE", "CHUNK_OVERLAP", "RETRIEVAL_TOP_K"} : IntField(e, key)

\* settings = Settings()
LoadSettings ==
    /\ lpc = "unloaded"
    /\ IF Loads(env)
       THEN /\ settings' = Settings(env.CHUNK_SIZE.value, env.CHUNK_OVERLAP.value,
                                    env.RETRIEVAL_TOP_K.value)
            /\ lpc' = "loaded"
       ELSE /\ lpc' = "rejected"
            /\ UNCHANGED settings
    /\ UNCHANGED <<env, ingestVars, qualityVars, chunkVars, chainVars,
                   fetchVars, initVars, paperVars, schedVars>>

\* The constructor of the splitter refuses an overlap larger than the chunk
\* size; whether it refuses a chunk size below 1 or a negative overlap
\* depends on the version of the library.
Refuses(sp) == sp.chunk_overlap > sp.chunk_size
MayRefuse(sp) == Refuses(sp) \/ sp.chunk_size <= 0 \/ sp.chunk_overlap < 0

\* get_text_splitter(): the splitter is constructed from the settings
BuildSplitter ==
    /\ lpc = "loaded"
    /\ LET sp == get_text_splitter(settings)
       IN  \/ ~Refuses(sp) /\ lpc' = "built"
           \/ MayRefuse(sp) /\ lpc' = "refused"
    /\ UNCHANGED <<env, ingestVars, qualityVars, configVars, chunkVars, chainVars,
                   fetchVars, initVars, paperVars, schedVars>>

(***************************************************************************)
(* BaseCrawler.fetch_html.  A GET succeeds (the response has a good        *)
(* status), fails with a requests.exceptions.RequestException (raised by   *)
(* session.get or by raise_for_status), or raises something else.          *)
(***************************************************************************)
MaxFetchRetries == 3    \* largest CRAWLER_MAX_RETRIES

Bodies == {"b1", "b2"}
RequestExceptions == {"ConnectionError", "Timeout", "HTTPError"}
None == [is_none |-> TRUE, text |-> ""]
Text(body) == [is_none |-> FALSE, text |-> body]
Got(outcome, body) == [outcome |-> outcome, body |-> body]

\* time.sleep(2 * attempt)
DelayLinear(a) == 2 * a

\* time.sleep(2 ** attempt)
Delay(a) == 2 ^ a

\* fetch_html(url): for attempt in range(self.max_retries); with nothing to
\* iterate over the function falls off its end and returns None
FetchHtml ==
    /\ fpc = "idle"
    /\ \E n \in 0..MaxFetchRetries :
          /\ fmax_retries' = n
          /\ IF n > 0
             THEN fpc' = "get" /\ UNCHANGED html
             ELSE fpc' = "returned" /\ html' = <<None>>
    /\ fattempt' = 0
    /\ UNCHANGED <<gets, sleeps, ingestVars, qualityVars, configVars, chunkVars,
                   chainVars, loadVars, initVars, paperVars, schedVars>>

\* session.get returns and raise_for_status passes: return response.text
GetReturns ==
    /\ fpc = "get"
    /\ \E body \in Bodies :
          /\ gets' = Append(gets, Got("ok", body))
          /\ html' = <<Text(body)>>
    /\ fpc' = "returned"
    /\ UNCHANGED <<fmax_retries, fattempt, sleeps, ingestVars, qualityVars, configVars,
                   chunkVars, chainVars, loadVars, initVars, paperVars, schedVars>>

\* except RequestException: sleep before the next attempt, or return None
\* after the last one
GetFails ==
    /\ fpc = "get"
    /\ \E e \in RequestExceptions : gets' = Append(gets, Got(e, ""))
    /\ IF fattempt < fmax_retries - 1
       THEN /\ sleeps' = Append(sleeps, Delay(fattempt))
            /\ fpc' = "sleep"
            /\ UNCHANGED html
       ELSE /\ html' = <<None>>
            /\ fpc' = "returned"
            /\ UNCHANGED sleeps
    /\ UNCHANGED <<fmax_retries, fattempt, ingestVars, qualityVars, configVars,
                   chunkVars, chainVars, loadVars, initVars, paperVars, schedVars>>

\* an exception that is no RequestException is not caught
GetRaises ==
    /\ fpc = "get"
    /\ gets' = Append(gets, Got("other", ""))
    /\ fpc' = "raised"
    /\ UNCHANGED <<fmax_retries, fattempt, sleeps, html, ingestVars, qualityVars,
                   configVars, chunkVars, chainVars, loadVars, initVars, paperVars,
                   schedVars>>

\* the sleep is over: the next attempt of the loop
NextAttempt ==
    /\ fpc = "sleep"
    /\ fattempt' = fattempt + 1
    /\ fpc' = "get"
    /\ UNCHANGED <<fmax_retries, gets, sleeps, html, ingestVars, qualityVars,
                   configVars, chunkVars, chainVars, loadVars, initVars, paperVars,
                   schedVars>>

(***************************************************************************)
(* init_vectorstore against the Qdrant server.  The server holds the       *)
(* configured collection or not; it answers get_collections,               *)
(* delete_collection and create_collection one request at a time.  A       *)
(* create_collection for a collection that exists is answered with an      *)
(* error (409, already exists); any request may fail because the server    *)
(* cannot be reached.  Callers are the API's startup event, its            *)
(* /init-vectorstore endpoint and the ingest scripts.                      *)
(***************************************************************************)
MaxInitCalls == 2   \* calls of init_vectorstore followed
MaxRecords == 1     \* records in the collection before the first call

Callers == {1, 2}    \* the callers of init_vectorstore
Absent == [exists |-> FALSE, records |-> 0]
Op(c, op, outcome) == [by |-> c, op |-> op, outcome |-> outcome]
InProgress == {"list", "delete", "create"}
CallsMade == Len(SelectSeq(ops, LAMBDA o : o.op = "call"))

\* The server's answers: a delete leaves no collection; a create makes an
\* empty collection, or is refused when the collection exists.
delete_collection(col) == [collection |-> Absent, outcome |-> "ok"]
create_collection(col) ==
    IF col.exists THEN [collection |-> col, outcome |-> "conflict"]
    ELSE [collection |-> [exists |-> TRUE, records |-> 0], outcome |-> "ok"]

\* init_vectorstore(reset): the client is made, nothing is asked yet
InitVectorstore(c) ==
    /\ ipc[c] \notin InProgress
    /\ concurrent \/ \A d \in Callers : ipc[d] \notin InProgress
    /\ CallsMade < MaxInitCalls
    /\ \E r \in BOOLEAN :
          /\ reset' = [reset EXCEPT ![c] = r]
          /\ ops' = Append(ops, Op(c, "call", IF r THEN "reset" ELSE "keep"))
    /\ before' = [before EXCEPT ![c] = collection]
    /\ exists' = [exists EXCEPT ![c] = FALSE]
    /\ ipc' = [ipc EXCEPT ![c] = "list"]
    /\ UNCHANGED <<collection, concurrent, ingestVars, qualityVars, configVars,
                   chunkVars, chainVars, loadVars, fetchVars, paperVars, schedVars>>

\* `if exists:` in place of `if exists and reset:`
GetCollectionsAlwaysReset(c) ==
    /\ ipc[c] = "list"
    /\ ops' = Append(ops, Op(c, "list", "ok"))
    /\ exists' = [exists EXCEPT ![c] = collection.exists]
    /\ ipc' = [ipc EXCEPT ![c] = IF collection.exists THEN "delete" ELSE "create"]
    /\ UNCHANGED <<collection, reset, before, concurrent, ingestVars, qualityVars,
                   configVars, chunkVars, chainVars, loadVars, fetchVars, paperVars,
                   schedVars>>

\* collections = client.get_collections().collections; exists = any(...);
\* what the call does next follows from exists and reset
GetCollections(c) ==
    /\ ipc[c] = "list"
    /\ ops' = Append(ops, Op(c, "list", "ok"))
    /\ exists' = [exists EXCEPT ![c] = collection.exists]
    /\ ipc' = [ipc EXCEPT ![c] = IF collection.exists /\ reset[c] THEN "delete"
                                 ELSE IF ~collection.exists THEN "create"
                                 ELSE "returned"]
    /\ UNCHANGED <<collection, reset, before, concurrent, ingestVars, qualityVars,
                   configVars, chunkVars, chainVars, loadVars, fetchVars, paperVars,
                   schedVars>>

\* client.delete_collection(collection_name); exists = False
DeleteCollection(c) ==
    /\ ipc[c] = "delete"
    /\ ops' = Append(ops, Op(c, "delete", delete_collection(collection).outcome))
    /\ collection' = delete_collection(collection).collection
    /\ exists' = [exists EXCEPT ![c] = FALSE]
    /\ ipc' = [ipc EXCEPT ![c] = "create"]
    /\ UNCHANGED <<reset, before, concurrent, ingestVars, qualityVars, configVars,
                   chunkVars, chainVars, loadVars, fetchVars, paperVars, schedVars>>

\* client.create_collection(...): created, or refused because it exists; the
\* error is logged and re-raised
CreateCollection(c) ==
    /\ ipc[c] = "create"
    /\ LET answer == create_collection(collection)
       IN  /\ ops' = Append(ops, Op(c, "create", answer.outcome))
           /\ collection' = answer.collection
           /\ ipc' = [ipc EXCEPT ![c] = IF answer.outcome = "ok" THEN "returned"
                                        ELSE "raised"]
    /\ UNCHANGED <<reset, exists, before, concurrent, ingestVars, qualityVars,
                   configVars, chunkVars, chainVars, loadVars, fetchVars, paperVars,
                   schedVars>>

\* the server cannot be reached: the request raises, and so does the call
RequestFails(c) ==
    /\ ipc[c] \in InProgress
    /\ ops' = Append(ops, Op(c, ipc[c], "error"))
    /\ ipc' = [ipc EXCEPT ![c] = "raised"]
    /\ UNCHANGED <<collection, reset, exists, before, concurrent, ingestVars,
                   qualityVars, configVars, chunkVars, chainVars, loadVars, fetchVars,
                   paperVars, schedVars>>

(***************************************************************************)
(* ingest_papers and search_papers.  A paper is known by its paperId; ""   *)
(* is a paper without one.  A page is the list of papers one search        *)
(* request returns.  The cache file is missing, readable (it holds a set   *)
(* of ids) or unreadable.                                                  *)
(***************************************************************************)
MaxPageLen == 2     \* papers on one page returned by the search
MaxPages == 2       \* pages with papers the search has for one run
MaxPaperRuns == 2   \* runs of ingest_papers
MaxRateLimits == 1  \* 429 answers during one run

page_size == 100
API_LIMIT == 100
MAX_BACKOFF == 60

PaperIds == {"p1", "p2"}
Limits == {-1, 0, 1, 2}
Max0(n) == IF n > 0 THEN n ELSE 0

\* effective_limit = 100 if limit == -1 or limit > 100 else limit
effective_limit(l) == IF l = -1 \/ l > API_LIMIT THEN API_LIMIT ELSE l

\* remaining = page_size if target_total is None else max(0, target_total - fetched)
remaining(l, f) == IF l = -1 THEN page_size ELSE Max0(l - f)

\* search_papers(limit=remaining or page_size, ...): the limit of the request
request_limit(l, f) ==
    effective_limit(IF remaining(l, f) # 0 THEN remaining(l, f) ELSE page_size)

\* the pages the search may return to a request for n papers
Pages(n) == UNION {[1..k -> PaperIds \cup {""}] : k \in 1..Min(n, MaxPageLen)}

Request(status, size) ==
    [offset |-> poffset, limit |-> request_limit(limit, fetched), fetched |-> fetched,
     status |-> status, size |-> size]
Answered == SelectSeq(requests, LAMBDA r : r.status # 429)
RateLimits == Len(SelectSeq(requests, LAMBDA r : r.status = 429))
PagesServed == Len(SelectSeq(requests, LAMBDA r : r.size > 0))

\* the head of the while loop: break when the target is reached
LoopHead(l, f) == IF l # -1 /\ remaining(l, f) = 0 THEN "save" ELSE "page"

\* ingest_papers(query, year_from, limit): the cache is loaded, the counters
\* are set, the loop is entered
IngestPapers ==
    /\ rpc \in {"idle", "done", "raised"}
    /\ runs < MaxPaperRuns
    /\ runs' = runs + 1
    /\ \E l \in Limits :
          /\ limit' = l
          /\ rpc' = LoopHead(l, 0)
    /\ ingested_ids' = IF cache.state = "ok" THEN cache.ids ELSE {}
    /\ new_ids' = {} /\ fetched' = 0 /\ poffset' = 0
    /\ papers' = <<>> /\ pos' = 0 /\ backoff' = 1 /\ requests' = <<>>
    /\ runTimes' = [id \in PaperIds |-> 0]
    /\ UNCHANGED <<cache, times, ingestVars, qualityVars, configVars, chunkVars,
                   chainVars, loadVars, fetchVars, initVars, schedVars>>

\* search_papers: 429; sleep backoff, double it up to the cap, ask again
RateLimited ==
    /\ rpc = "page"
    /\ RateLimits < MaxRateLimits
    /\ requests' = Append(requests, Request(429, 0))
    /\ backoff' = Min(backoff * 2, MAX_BACKOFF)
    /\ UNCHANGED <<rpc, cache, limit, ingested_ids, new_ids, fetched, poffset, papers,
                   pos, times, runTimes, runs, ingestVars, qualityVars, configVars,
                   chunkVars, chainVars, loadVars, fetchVars, initVars, schedVars>>

\* search_papers returns a page with papers: the for loop begins
PageReturns ==
    /\ rpc = "page"
    /\ PagesServed < MaxPages
    /\ \E page \in Pages(request_limit(limit, fetched)) :
          /\ papers' = page
          /\ requests' = Append(requests, Request(200, Len(page)))
    /\ pos' = 1
    /\ backoff' = 1
    /\ rpc' = "walk"
    /\ UNCHANGED <<cache, limit, ingested_ids, new_ids, fetched, poffset, times,
                   runTimes, runs, ingestVars, qualityVars, configVars, chunkVars,
                   chainVars, loadVars, fetchVars, initVars, schedVars>>

\* search_papers returns no paper (400, or an empty data list): break
PageEmpty ==
    /\ rpc = "page"
    /\ \E status \in {200, 400} : requests' = Append(requests, Request(status, 0))
    /\ backoff' = 1
    /\ rpc' = "save"
    /\ UNCHANGED <<cache, limit, ingested_ids, new_ids, fetched, poffset, papers, pos,
                   times, runTimes, runs, ingestVars, qualityVars, configVars,
                   chunkVars, chainVars, loadVars, fetchVars, initVars, schedVars>>

\* requests.get or raise_for_status raises: nothing catches it
PageFails ==
    /\ rpc = "page"
    /\ requests' = Append(requests, Request(500, 0))
    /\ rpc' = "raised"
    /\ UNCHANGED <<cache, limit, ingested_ids, new_ids, fetched, poffset, papers, pos,
                   backoff, times, runTimes, runs, ingestVars, qualityVars, configVars,
                   chunkVars, chainVars, loadVars, fetchVars, initVars, schedVars>>

\* offset += page_size
NextOffsetFullPage(off, page) == off + page_size

\* offset += len(papers)
NextOffset(off, page) == off + Len(page)

\* After a paper: the next paper of the page; or, at the end of the page or
\* after the break, the offset is advanced (and the page delay slept) and the
\* loop goes back to its head.  f is the value of fetched.
AfterPaper(f) ==
    IF pos = Len(papers) \/ (limit # -1 /\ f >= limit)
    THEN /\ poffset' = NextOffset(poffset, papers)
         /\ papers' = <<>> /\ pos' = 0
         /\ rpc' = LoopHead(limit, f)
    ELSE /\ pos' = pos + 1
         /\ UNCHANGED <<poffset, papers, rpc>>

\* if pid and pid in ingested_ids
InCache(pid) == pid # "" /\ pid \in ingested_ids

\* an ingested paper is skipped: continue
SkipPaper ==
    /\ rpc = "walk"
    /\ InCache(papers[pos])
    /\ AfterPaper(fetched)
    /\ UNCHANGED <<cache, limit, ingested_ids, new_ids, fetched, backoff, requests,
                   times, runTimes, runs, ingestVars, qualityVars, configVars,
                   chunkVars, chainVars, loadVars, fetchVars, initVars, schedVars>>

\* ingest_from_text returns: fetched += 1; new_ids.add(pid) if pid; break
\* when the target is reached
IngestPaper ==
    /\ rpc = "walk"
    /\ ~InCache(papers[pos])
    /\ LET pid == papers[pos]
       IN  /\ times' = IF pid # "" THEN [times EXCEPT ![pid] = @ + 1] ELSE times
           /\ runTimes' = IF pid # "" THEN [runTimes EXCEPT ![pid] = @ + 1] ELSE runTimes
           /\ new_ids' = IF pid # "" THEN new_ids \cup {pid} ELSE new_ids
    /\ fetched' = fetched + 1
    /\ AfterPaper(fetched + 1)
    /\ UNCHANGED <<cache, limit, ingested_ids, backoff, requests, runs, ingestVars,
                   qualityVars, configVars, chunkVars, chainVars, loadVars, fetchVars,
                   initVars, schedVars>>

\* ingest_from_text raises: nothing catches it, the cache is not written
IngestPaperFails ==
    /\ rpc = "walk"
    /\ ~InCache(papers[pos])
    /\ rpc' = "raised"
    /\ UNCHANGED <<cache, limit, ingested_ids, new_ids, fetched, poffset, papers, pos,
                   backoff, requests, times, runTimes, runs, ingestVars, qualityVars,
                   configVars, chunkVars, chainVars, loadVars, fetchVars, initVars,
                   schedVars>>

\* after the loop: the cache is written when there are new ids; return
SaveCache ==
    /\ rpc = "save"
    /\ cache' = IF new_ids # {}
                THEN [state |-> "ok", ids |-> ingested_ids \cup new_ids]
                ELSE cache
    /\ rpc' = "done"
    /\ UNCHANGED <<limit, ingested_ids, new_ids, fetched, poffset, papers, pos,
                   backoff, requests, times, runTimes, runs, ingestVars, qualityVars,
                   configVars, chunkVars, chainVars, loadVars, fetchVars, initVars,
                   schedVars>>

\* writing the cache fails: the file is left as it was, or truncated; the
\* exception is logged and the run returns
SaveCacheFails ==
    /\ rpc = "save"
    /\ new_ids # {}
    /\ \/ UNCHANGED cache
       \/ cache' = [state |-> "unreadable", ids |-> {}]
    /\ rpc' = "done"
    /\ UNCHANGED <<limit, ingested_ids, new_ids, fetched, poffset, papers, pos,
                   backoff, requests, times, runTimes, runs, ingestVars, qualityVars,
                   configVars, chunkVars, chainVars, loadVars, fetchVars, initVars,
                   schedVars>>


(***************************************************************************)
(* crawl_and_ingest (scheduler/daily_crawler.py): every registered crawler *)
(* is crawled and its documents are ingested, inside one try block per     *)
(* crawler.  crawl() returns a list of documents or raises; the ingest of  *)
(* a non-empty list returns the number of chunks stored or raises.         *)
(***************************************************************************)
MaxCrawlers == 3    \* crawlers registered with the scheduler
MaxChunks == 2      \* chunks one ingest_from_crawler call of the scheduler returns

CrawlerNames == {"Example Pig Farming Site", "Other Site"}

\* the lists of crawlers the scheduler is started with
CrawlerLists == UNION {[1..n -> CrawlerNames] : n \in 0..MaxCrawlers}

\* what one crawler did: crawl is "ok" or "raised", documents is len(documents),
\* ingest is "none" (not called), "called", "ok" or "raised", count is what the
\* ingest returned
Step(name, crawl, n, ingest, chunks) ==
    [crawler |-> name, crawl |-> crawl, documents |-> n, ingest |-> ingest,
     count |-> chunks]

\* the except clause stops the loop
ForBreak ==
    /\ kpc' = "done"
    /\ UNCHANGED kindex

\* the for statement takes the next crawler, or the loop ends and the totals
\* are logged
ForNext ==
    IF kindex < Len(crawlers)
    THEN kpc' = "crawl" /\ kindex' = kindex + 1
    ELSE kpc' = "done" /\ UNCHANGED kindex

\* except Exception: the error is logged, continue
ExceptContinue == ForNext

CrawlAndIngest ==
    /\ kpc = "idle"
    /\ \E cs \in CrawlerLists :
        /\ crawlers' = cs
        /\ IF cs = <<>>
           THEN kpc' = "done" /\ kindex' = 0
           ELSE kpc' = "crawl" /\ kindex' = 1
    /\ total_crawled' = 0
    /\ ktotal' = 0
    /\ steps' = <<>>
    /\ UNCHANGED <<ingestVars, qualityVars, configVars, chunkVars, chainVars,
                   loadVars, fetchVars, initVars, paperVars>>

\* crawler.crawl() returns n documents; with none, a warning is logged and the
\* next crawler is taken
CrawlReturns ==
    /\ kpc = "crawl"
    /\ \E n \in 0..MaxCrawled :
        /\ total_crawled' = total_crawled + n
        /\ IF n > 0
           THEN /\ steps' = Append(steps, Step(crawlers[kindex], "ok", n, "called", 0))
                /\ kpc' = "ingest"
                /\ UNCHANGED kindex
           ELSE /\ steps' = Append(steps, Step(crawlers[kindex], "ok", 0, "none", 0))
                /\ ForNext
    /\ UNCHANGED <<crawlers, ktotal, ingestVars, qualityVars, configVars, chunkVars,
                   chainVars, loadVars, fetchVars, initVars, paperVars>>

\* crawler.crawl() raises
CrawlRaises ==
    /\ kpc = "crawl"
    /\ steps' = Append(steps, Step(crawlers[kindex], "raised", 0, "none", 0))
    /\ ExceptContinue
    /\ UNCHANGED <<crawlers, total_crawled, ktotal, ingestVars, qualityVars,
                   configVars, chunkVars, chainVars, loadVars, fetchVars, initVars,
                   paperVars>>

\* ingest_from_crawler(documents) returns the number of chunks it stored
IngestReturns ==
    /\ kpc = "ingest"
    /\ \E c \in 0..MaxChunks :
        /\ ktotal' = ktotal + c
        /\ steps' = [steps EXCEPT ![Len(steps)].ingest = "ok",
                                  ![Len(steps)].count = c]
    /\ ForNext
    /\ UNCHANGED <<crawlers, total_crawled, ingestVars, qualityVars, configVars,
                   chunkVars, chainVars, loadVars, fetchVars, initVars, paperVars>>

\* ingest_from_crawler(documents) raises
IngestRaises ==
    /\ kpc = "ingest"
    /\ steps' = [steps EXCEPT ![Len(steps)].ingest = "raised"]
    /\ ExceptContinue
    /\ UNCHANGED <<crawlers, total_crawled, ktotal, ingestVars, qualityVars,
                   configVars, chunkVars, chainVars, loadVars, fetchVars, initVars,
                   paperVars>>

\* the environment the settings in force were loaded from
EnvOf(s) ==
    [CHUNK_SIZE |-> EnvValue("int", s.CHUNK_SIZE),
     CHUNK_OVERLAP |-> EnvValue("int", s.CHUNK_OVERLAP),
     RETRIEVAL_TOP_K |-> EnvValue("int", s.RETRIEVAL_TOP_K)]

LoadIdle == lpc = "loaded" /\ env = EnvOf(settings)

FetchIdle ==
    /\ fpc = "idle" /\ fmax_retries = 0 /\ fattempt = 0
    /\ gets = <<>> /\ sleeps = <<>> /\ html = <<>>

NoCall ==
    /\ ops = <<>>
    /\ ipc = [c \in Callers |-> "idle"]
    /\ reset = [c \in Callers |-> FALSE]
    /\ exists = [c \in Callers |-> FALSE]
    /\ before = [c \in Callers |-> Absent]

InitIdle ==
    /\ collection = Absent
    /\ NoCall
    /\ concurrent = FALSE

PapersIdle ==
    /\ rpc = "idle"
    /\ cache = [state |-> "missing", ids |-> {}]
    /\ limit = 0 /\ ingested_ids = {} /\ new_ids = {} /\ fetched = 0 /\ poffset = 0
    /\ papers = <<>> /\ pos = 0 /\ backoff = 1 /\ requests = <<>>
    /\ times = [id \in PaperIds |-> 0]
    /\ runTimes = [id \in PaperIds |-> 0]
    /\ runs = 0

SchedIdle ==
    /\ kpc = "idle" /\ crawlers = <<>> /\ kindex = 0
    /\ total_crawled = 0 /\ ktotal = 0 /\ steps = <<>>

OpsIdle == LoadIdle /\ FetchIdle /\ InitIdle /\ PapersIdle /\ SchedIdle

Init == IngestIdle /\ QualityIdle /\ ConfigIdle /\ ChunkIdle /\ ChainIdle /\ OpsIdle

Next ==
    \/ IngestDocumentsCall
    \/ IngestFromCrawlerCall
    \/ IngestFromTextCall
    \/ NextBatch
    \/ Return
    \/ AddDocumentsOk
    \/ AddDocumentsFail
    \/ Abort
    \/ Backoff
    \/ Retry

\* Spec: one call into the ingestion pipeline, step by step.
Spec == Init /\ [][Next]_vars

\* LiveSpec: the same, the calling thread always taking its next step.
LiveSpec == Init /\ [][Next]_vars /\ WF_vars(Next)

(***************************************************************************)
(* QualitySpec: validate_document_quality applied to every bounded text.   *)
(***************************************************************************)
QualityInit ==
    /\ IngestIdle /\ ConfigIdle /\ ChunkIdle /\ ChainIdle /\ OpsIdle
    /\ qpc = "input" /\ content \in Texts /\ verdict = FALSE

Validate ==
    /\ qpc = "input"
    /\ verdict' = validate_document_quality(content)
    /\ qpc' = "checked"
    /\ UNCHANGED <<content, ingestVars, configVars, chunkVars, chainVars, opsVars>>

QualityNext == Validate

QualitySpec == QualityInit /\ [][QualityNext]_vars

(***************************************************************************)
(* ChunkSpec: process_document applied to every bounded text under every   *)
(* bounded chunk setting, and to the 250-character text at 100/20.         *)
(***************************************************************************)
ChunkInit ==
    /\ IngestIdle /\ QualityIdle /\ ChainIdle
    /\ ppc = "input"
    /\ \/ ptext \in CharTexts /\ settings \in ChunkSettings
          /\ pgiven = [is_none |-> TRUE, map |-> EmptyDict]
       \/ ptext \in TaggedTexts /\ settings \in ChunkSettings /\ pgiven \in Metadatas
       \/ ptext = ScenarioText /\ settings = ScenarioSettings
          /\ pgiven = [is_none |-> TRUE, map |-> EmptyDict]
    /\ pmetadata = pgiven.map
    /\ pdocs = <<>>
    /\ OpsIdle

\* process_document(content, metadata): the splitter is get_text_splitter()
ProcessDocument ==
    /\ ppc = "input"
    /\ LET returned == process_document_text(
                           ptext, [is_none |-> pgiven.is_none, map |-> pmetadata],
                           get_text_splitter(settings))
       IN  /\ pdocs' = returned.documents
           /\ pmetadata' = returned.caller
    /\ ppc' = "returned"
    /\ UNCHANGED <<ptext, pgiven, ingestVars, qualityVars, configVars, chainVars, opsVars>>

ChunkNext == ProcessDocument

ChunkSpec == ChunkInit /\ [][ChunkNext]_vars


(***************************************************************************)
(* MetadataSpec: ingest_from_crawler and ingest_from_text on character     *)
(* texts, the chunks followed into the store's add_documents.  Both call   *)
(* ingest_documents with its default max_retries of -1, which never gives  *)
(* up.                                                                     *)
(***************************************************************************)
MetadataInit ==
    /\ IngestIdle /\ QualityIdle /\ ChunkIdle /\ ChainIdle
    /\ settings \in {Settings(100, 20, 1), Settings(50, 0, 1)}
    /\ OpsIdle

MetadataNext ==
    \/ IngestFromCrawlerDocs
    \/ IngestFromTextDocs
    \/ NextBatch
    \/ Return
    \/ AddDocumentsOk
    \/ AddDocumentsFail
    \/ Backoff
    \/ Retry

MetadataSpec == MetadataInit /\ [][MetadataNext]_vars

(***************************************************************************)
(* ConfigSpec: the configuration is loaded from every bounded environment  *)
(* and the splitter is built from it.                                      *)
(***************************************************************************)
ConfigInit ==
    /\ IngestIdle /\ QualityIdle /\ ConfigIdle /\ ChunkIdle /\ ChainIdle
    /\ FetchIdle /\ InitIdle /\ PapersIdle /\ SchedIdle
    /\ lpc = "unloaded" /\ env \in Envs

ConfigNext == LoadSettings \/ BuildSplitter

ConfigSpec == ConfigInit /\ [][ConfigNext]_vars

(***************************************************************************)
(* FetchSpec: one call of fetch_html, for every bounded max_retries.       *)
(***************************************************************************)
FetchNext ==
    \/ FetchHtml
    \/ GetReturns
    \/ GetFails
    \/ GetRaises
    \/ NextAttempt

FetchSpec == Init /\ [][FetchNext]_vars

(***************************************************************************)
(* CollectionSpec: calls of init_vectorstore, one at a time, against a     *)
(* server that holds the collection or not.  RaceSpec: the same calls,     *)
(* overlapping as separate processes make them.                            *)
(***************************************************************************)
Collections == {Absent} \cup {[exists |-> TRUE, records |-> n] : n \in 0..MaxRecords}

CollectionInit ==
    /\ IngestIdle /\ QualityIdle /\ ConfigIdle /\ ChunkIdle /\ ChainIdle
    /\ LoadIdle /\ FetchIdle /\ PapersIdle /\ SchedIdle
    /\ collection \in Collections
    /\ NoCall
    /\ concurrent = FALSE

RaceInit ==
    /\ IngestIdle /\ QualityIdle /\ ConfigIdle /\ ChunkIdle /\ ChainIdle
    /\ LoadIdle /\ FetchIdle /\ PapersIdle /\ SchedIdle
    /\ collection \in Collections
    /\ NoCall
    /\ concurrent = TRUE

CollectionNext ==
    \E c \in Callers :
        \/ InitVectorstore(c)
        \/ GetCollections(c)
        \/ DeleteCollection(c)
        \/ CreateCollection(c)
        \/ RequestFails(c)

CollectionSpec == CollectionInit /\ [][CollectionNext]_vars

RaceSpec == RaceInit /\ [][CollectionNext]_vars

(***************************************************************************)
(* PapersSpec: runs of ingest_papers, one after the other, sharing the     *)
(* cache file.                                                             *)
(***************************************************************************)
Caches ==
    {[state |-> "missing", ids |-> {}], [state |-> "unreadable", ids |-> {}]}
        \cup {[state |-> "ok", ids |-> ids] : ids \in {{}, {"p1"}}}

PapersInit ==
    /\ IngestIdle /\ QualityIdle /\ ConfigIdle /\ ChunkIdle /\ ChainIdle
    /\ LoadIdle /\ FetchIdle /\ InitIdle /\ SchedIdle
    /\ rpc = "idle"
    /\ cache \in Caches
    /\ limit = 0 /\ ingested_ids = {} /\ new_ids = {} /\ fetched = 0 /\ poffset = 0
    /\ papers = <<>> /\ pos = 0 /\ backoff = 1 /\ requests = <<>>
    /\ times = [id \in PaperIds |-> 0]
    /\ runTimes = [id \in PaperIds |-> 0]
    /\ runs = 0

\* RunSpec: one run of ingest_papers, the last that is followed, from every
\* state of the cache file.
RunInit ==
    /\ IngestIdle /\ QualityIdle /\ ConfigIdle /\ ChunkIdle /\ ChainIdle
    /\ LoadIdle /\ FetchIdle /\ InitIdle /\ SchedIdle
    /\ rpc = "idle"
    /\ cache \in Caches
    /\ limit = 0 /\ ingested_ids = {} /\ new_ids = {} /\ fetched = 0 /\ poffset = 0
    /\ papers = <<>> /\ pos = 0 /\ backoff = 1 /\ requests = <<>>
    /\ times = [id \in PaperIds |-> 0]
    /\ runTimes = [id \in PaperIds |-> 0]
    /\ runs = MaxPaperRuns - 1

PapersNext ==
    \/ IngestPapers
    \/ RateLimited
    \/ PageReturns
    \/ PageEmpty
    \/ PageFails
    \/ SkipPaper
    \/ IngestPaper
    \/ IngestPaperFails
    \/ SaveCache
    \/ SaveCacheFails

PapersSpec == PapersInit /\ [][PapersNext]_vars

RunSpec == RunInit /\ [][PapersNext]_vars

(***************************************************************************)
(* SchedSpec: one call of crawl_and_ingest, for every bounded list of      *)
(* crawlers and every outcome of their crawl and ingest steps.             *)
(***************************************************************************)
SchedNext ==
    \/ CrawlAndIngest
    \/ CrawlReturns
    \/ CrawlRaises
    \/ IngestReturns
    \/ IngestRaises

SchedSpec == Init /\ [][SchedNext]_vars

(***************************************************************************)
(* ChainSpec: a chain is built by get_qa_chain or get_conversational_chain *)
(* and its invoke is called, any number of times.                          *)
(***************************************************************************)
ChainInit ==
    /\ IngestIdle /\ QualityIdle /\ ChunkIdle /\ ChainIdle
    /\ settings \in {Settings(1, 0, top_k) : top_k \in 1..MaxK}
    /\ OpsIdle

\* get_qa_chain(return_source_documents, top_k)
GetQaChain ==
    /\ cpc = "idle"
    /\ \E return_source_documents \in BOOLEAN, top_k \in TopKs :
          chain' = [mode |-> "qa", top_k |-> top_k, k |-> TopK(top_k, settings),
                    memory |-> NoList,
                    return_source_documents |-> return_source_documents]
    /\ cpc' = "built"
    /\ UNCHANGED <<inputs, calls, results, retrieved, output, cfailure,
                   ingestVars, qualityVars, configVars, chunkVars, opsVars>>

\* get_conversational_chain(memory, top_k)
GetConversationalChain ==
    /\ cpc = "idle"
    /\ \E memory \in Memories, top_k \in TopKs :
          chain' = [mode |-> "conversational", top_k |-> top_k,
                    k |-> TopK(top_k, settings), memory |-> memory,
                    return_source_documents |-> TRUE]
    /\ cpc' = "built"
    /\ UNCHANGED <<inputs, calls, results, retrieved, output, cfailure,
                   ingestVars, qualityVars, configVars, chunkVars, opsVars>>

\* invoke(inputs), up to the similarity search it issues
Invoke ==
    /\ cpc \in {"built", "done", "raised"}
    /\ \E chat_history \in ChatHistories :
          LET ins == [question |-> "q", chat_history |-> chat_history]
          IN  /\ inputs' = ins
              /\ calls' = <<[to |-> "store",
                             query |-> retrieval_query(ins.question, History(chain, ins)),
                             k |-> chain.k]>>
    /\ results' = <<>> /\ retrieved' = <<>> /\ output' = <<>>
    /\ cfailure' = "none"
    /\ cpc' = "search"
    /\ UNCHANGED <<chain, ingestVars, qualityVars, configVars, chunkVars, opsVars>>

\* an empty retrieval answered without the model
SearchReturnsShortCircuit ==
    /\ cpc = "search"
    /\ \E response \in Responses(chain.k) :
          LET got == retrieve(response, <<>>)
          IN  /\ results' = response
              /\ IF got.raised
                 THEN /\ cpc' = "raised" /\ cfailure' = "retrieve"
                      /\ UNCHANGED <<calls, retrieved, output>>
                 ELSE IF got.docs = <<>>
                 THEN /\ cpc' = "done"
                      /\ output' = <<[answer |-> "none", source_documents |-> <<>>]>>
                      /\ UNCHANGED <<calls, retrieved, cfailure>>
                 ELSE /\ retrieved' = got.docs
                      /\ calls' = Append(calls, LlmInput(chain, inputs, got.docs))
                      /\ cpc' = "llm"
                      /\ UNCHANGED <<output, cfailure>>
    /\ UNCHANGED <<chain, inputs, ingestVars, qualityVars, configVars, chunkVars, opsVars>>

\* the search returns: retrieve walks the items, invoke renders the prompt
\* and calls the model
SearchReturns ==
    /\ cpc = "search"
    /\ \E response \in Responses(chain.k) :
          LET got == retrieve(response, <<>>)
          IN  /\ results' = response
              /\ IF got.raised
                 THEN /\ cpc' = "raised" /\ cfailure' = "retrieve"
                      /\ UNCHANGED <<calls, retrieved>>
                 ELSE /\ retrieved' = got.docs
                      /\ calls' = Append(calls, LlmInput(chain, inputs, got.docs))
                      /\ cpc' = "llm"
                      /\ UNCHANGED cfailure
    /\ UNCHANGED <<chain, inputs, output, ingestVars, qualityVars, configVars,
                   chunkVars, opsVars>>

\* query_rag(question, qa_chain): qa_chain.invoke({"query": question}), the
\* chain being get_qa_chain() when none is passed; an exception of the invoke
\* is logged and re-raised
QueryRag ==
    /\ \/ /\ cpc = "idle"
          /\ chain' = [mode |-> "qa", top_k |-> <<>>, k |-> TopK(<<>>, settings),
                       memory |-> NoList, return_source_documents |-> TRUE]
       \/ /\ cpc \in {"built", "done", "raised"}
          /\ chain.mode = "qa"
          /\ UNCHANGED chain
    /\ LET ins == [question |-> "q", chat_history |-> NoList]
       IN  /\ inputs' = ins
           /\ calls' = <<[to |-> "store",
                          query |-> retrieval_query(ins.question, qa_history(ins)),
                          k |-> chain'.k]>>
    /\ results' = <<>> /\ retrieved' = <<>> /\ output' = <<>>
    /\ cfailure' = "none"
    /\ cpc' = "search"
    /\ UNCHANGED <<ingestVars, qualityVars, configVars, chunkVars, opsVars>>

\* a failed search answered from an empty context
SearchFailsEmptyContext ==
    /\ cpc = "search"
    /\ cfailure' = "search"
    /\ retrieved' = <<>>
    /\ calls' = Append(calls, LlmInput(chain, inputs, <<>>))
    /\ cpc' = "llm"
    /\ UNCHANGED <<chain, inputs, results, output,
                   ingestVars, qualityVars, configVars, chunkVars, opsVars>>

\* the search raises: retrieve logs and re-raises, invoke does not catch
SearchFails ==
    /\ cpc = "search"
    /\ cpc' = "raised" /\ cfailure' = "search"
    /\ UNCHANGED <<chain, inputs, calls, results, retrieved, output,
                   ingestVars, qualityVars, configVars, chunkVars, opsVars>>

\* llm.invoke returns: invoke returns the answer and the source documents
LlmReturns ==
    /\ cpc = "llm"
    /\ output' = <<[answer |-> "answer",
                    source_documents |-> IF chain.return_source_documents
                                         THEN retrieved ELSE <<>>]>>
    /\ cpc' = "done"
    /\ UNCHANGED <<chain, inputs, calls, results, retrieved, cfailure,
                   ingestVars, qualityVars, configVars, chunkVars, opsVars>>

\* llm.invoke raises
LlmFails ==
    /\ cpc = "llm"
    /\ cpc' = "raised" /\ cfailure' = "llm"
    /\ UNCHANGED <<chain, inputs, calls, results, retrieved, output,
                   ingestVars, qualityVars, configVars, chunkVars, opsVars>>

ChainNext ==
    \/ GetQaChain
    \/ GetConversationalChain
    \/ Invoke
    \/ QueryRag
    \/ SearchReturns
    \/ SearchFails
    \/ LlmReturns
    \/ LlmFails

ChainSpec == ChainInit /\ [][ChainNext]_vars

(***************************************************************************)
(* Properties.                                                             *)
(***************************************************************************)
Terminal == pc \in {"done", "raised"}
LastLog == addLog[Len(addLog)]
Hi(e) == e.lo + Len(e.batch)
\* the except clause has dealt with the failure logged at k
Handled(k) == k < Len(addLog) \/ pc # "except"
OkLog == SelectSeq(addLog, LAMBDA e : e.err = "none")

RECURSIVE Chunks(_)
Chunks(log) == IF log = <<>> THEN 0 ELSE Len(Head(log).batch) + Chunks(Tail(log))

SingleBatch == documents # <<>> /\ Len(documents) <= params.batch_size
CeilingAtLeast(n) == params.max_retries = -1 \/ params.max_retries >= n

\* C1: on a single-batch input whose write fails exactly N times and then
\* succeeds, the call returns the full batch size if the retry ceiling is >= N,
\* and raises, returning no count, if the ceiling is < N.
C1_RetryCeiling ==
    (Terminal /\ SingleBatch /\ ~plan.permanent) =>
        IF CeilingAtLeast(plan.fails)
        THEN pc = "done" /\ result = <<Len(documents)>>
        ELSE pc = "raised" /\ result = <<>>

\* C2: once a failed write has reached the retry ceiling and the handler has
\* run, the call has failed with that write's error, nothing was returned, and
\* that write is the last add_documents call of the call.
C2_ExhaustedFails ==
    \A k \in DOMAIN addLog :
        ( /\ addLog[k].err # "none"
          /\ params.max_retries # -1
          /\ addLog[k].attempt >= params.max_retries
          /\ Handled(k) )
        => /\ pc = "raised"
           /\ raised = addLog[k].err
           /\ result = <<>>
           /\ k = Len(addLog)

\* C2 witness: the ceiling was reached on the first batch after a retry, with
\* later batches still unwritten.
C2_Witness ==
    /\ pc = "raised"
    /\ Len(addLog) = 2
    /\ Hi(LastLog) < Len(documents)

\* C3: every add_documents call writes a non-empty contiguous slice of the
\* input of batch_size chunks (only the slice ending the input may be shorter);
\* the first call writes the slice at offset 0 as attempt 1; a call after a
\* successful one writes the slice starting where that one ended, as attempt 1;
\* a call after a failed one writes the same slice as the next attempt; and a
\* call that returns normally has written the slice ending the input.
C3_BatchOrder ==
    /\ \A k \in DOMAIN addLog :
          LET e == addLog[k] IN
          /\ e.batch # <<>>
          /\ Hi(e) <= Len(documents)
          /\ e.batch = SubSeq(documents, e.lo + 1, Hi(e))
          /\ Len(e.batch) = params.batch_size
             \/ (Len(e.batch) < params.batch_size /\ Hi(e) = Len(documents))
          /\ k = 1 => e.lo = 0 /\ e.attempt = 1
          /\ k > 1 =>
                LET d == addLog[k - 1] IN
                IF d.err = "none"
                THEN e.lo = Hi(d) /\ e.attempt = 1
                ELSE e.lo = d.lo /\ e.batch = d.batch /\ e.attempt = d.attempt + 1
    /\ (pc = "done" /\ documents # <<>>) =>
          addLog # <<>> /\ LastLog.err = "none" /\ Hi(LastLog) = Len(documents)

\* C3 witness: the default batch size splits 101 chunks into batches of 100 and
\* 1, the second written after the first was retried.
C3_Witness ==
    /\ pc = "done"
    /\ params.batch_size = DEFAULT_BATCH_SIZE
    /\ Len(documents) = DEFAULT_BATCH_SIZE + 1
    /\ Len(addLog) = 3
    /\ addLog[1].err # "none"

\* C4: when the call ends, the store holds exactly the batches whose write
\* returned successfully, each once and in order.
C4_StoreExact ==
    Terminal => store = [k \in 1..Len(OkLog) |-> OkLog[k].batch]

\* C5: a write that failed with a permanent error is never retried: once its
\* handler has run the call has failed with that error, and it was the first
\* attempt of its batch and the last add_documents call.
C5_PermanentNotRetried ==
    \A k \in DOMAIN addLog :
        (addLog[k].err = "permanent" /\ Handled(k)) =>
            /\ pc = "raised"
            /\ raised = "permanent"
            /\ addLog[k].attempt = 1
            /\ k = Len(addLog)

\* C6, in every state of a call with max_retries = -1: nothing is raised; a
\* sleep lasts retry_backoff * (number of the attempt that failed); a failed
\* write is followed by a write of the same batch as the next attempt; and the
\* call has returned only if every batch was written successfully.
C6_Safety ==
    (params.max_retries = -1 /\ pc # "idle") =>
        /\ pc # "raised" /\ raised = "none"
        /\ pc = "sleep" =>
              /\ LastLog.err # "none"
              /\ slept = params.retry_backoff * LastLog.attempt
              /\ attempt = LastLog.attempt /\ i = LastLog.lo
        /\ pc = "write" /\ attempt > 1 =>
              /\ LastLog.err # "none"
              /\ attempt = LastLog.attempt + 1 /\ i = LastLog.lo
        /\ \A k \in DOMAIN addLog :
              (addLog[k].err # "none" /\ Handled(k)) =>
                  /\ pc \in {"sleep", "write", "except", "loop", "done"}
                  /\ k = Len(addLog) => pc \in {"sleep", "write"}
                  /\ k < Len(addLog) =>
                        /\ addLog[k + 1].lo = addLog[k].lo
                        /\ addLog[k + 1].attempt = addLog[k].attempt + 1
        /\ pc = "done" =>
              \A c \in DOMAIN documents :
                  \E k \in DOMAIN addLog :
                      /\ addLog[k].err = "none"
                      /\ addLog[k].lo < c /\ c <= Hi(addLog[k])

\* C6: with max_retries = -1 the call never gives up on a batch (C6_Safety), and
\* it goes on until it has returned or faces a batch whose write fails for good.
C6_UnlimitedRetries ==
    /\ []C6_Safety
    /\ (params.max_retries = -1 /\ pc # "idle") ~> (pc = "done" \/ plan.permanent)

\* C6 witness: an unlimited call returned after a batch had failed twice.
C6_Witness ==
    /\ params.max_retries = -1
    /\ pc = "done"
    /\ \E k \in DOMAIN addLog : addLog[k].err # "none" /\ addLog[k].attempt = 2

\* C7: ingest_documents called with an empty sequence has returned 0, has not
\* obtained a store handle and has not called add_documents.
C7_EmptyInput ==
    (entry = "documents" /\ documents = <<>>) =>
        /\ pc = "done" /\ result = <<0>> /\ raised = "none"
        /\ handleCalls = 0
        /\ addLog = <<>> /\ store = <<>>

\* C7 witness: an empty direct call without a vectorstore argument has returned.
C7_Witness ==
    entry = "documents" /\ documents = <<>> /\ ~params.given /\ pc = "done"

\* C8: the running total is the number of chunks of the batches written
\* successfully so far, and a call that returns normally returns the number of
\* input chunks.
C8_RunningTotal ==
    /\ total_ingested = Chunks(OkLog)
    /\ pc = "done" => result = <<Len(documents)>>

\* C8 witness: a call returned after writing a full batch and a shorter last
\* batch, with a failed write on the way.
C8_Witness ==
    /\ pc = "done"
    /\ Len(OkLog) >= 2
    /\ Len(LastLog.batch) < params.batch_size
    /\ Len(addLog) > Len(OkLog)

\* the rule as claimed: stripped length >= 100, and Hangul characters at least
\* 30% of the non-whitespace characters
ClaimedQuality(text) ==
    /\ len(strip(text)) >= 100
    /\ 10 * count(text, {"H"}) >= 3 * count(text, Classes \ Whitespace)

\* C9: validate_document_quality(text) is true exactly when the stripped length
\* is >= 100 and the Hangul characters are at least 30% of the non-whitespace
\* characters of text.
C9_QualityRule == qpc = "checked" => (verdict <=> ClaimedQuality(content))

Rejected(d) == ~validate_document_quality(crawled.docs[d].content)
Before(a, b) ==
    a.doc < b.doc \/ (a.doc = b.doc /\ a.chunk_index < b.chunk_index)

Returned == ppc = "returned"
ChunkTexts == [k \in 1..Len(pdocs) |-> pdocs[k].page_content]
SplitterOutput == split_text(str_strip(ptext), get_text_splitter(settings))
PositionKeys == {"chunk_index", "total_chunks", "chunk_size"}

\* C11: process_document returns the splitter's chunks in the splitter's
\* order; the i-th document (from 0) carries chunk_index = i, total_chunks =
\* the number of chunks and chunk_size = the length of its text, whatever the
\* caller's metadata held under those keys; and the caller's mapping is as it
\* was before the call.
C11_PositionTags ==
    Returned =>
        /\ str_strip(ptext) # <<>> => ChunkTexts = SplitterOutput
        /\ \A k \in 1..Len(pdocs) :
              /\ pdocs[k].metadata.chunk_index = k - 1
              /\ pdocs[k].metadata.total_chunks = Len(pdocs)
              /\ pdocs[k].metadata.chunk_size = Len(pdocs[k].page_content)
        /\ pmetadata = pgiven.map

\* C11 witness: a text of several chunks was processed with a metadata
\* mapping that already held the three position keys.
C11_Witness ==
    /\ Returned /\ Len(pdocs) >= 2
    /\ ~pgiven.is_none /\ PositionKeys \subseteq DOMAIN pgiven.map

\* no separator of the list, the empty one included, applies to the chunk
Unsplittable(chunk) ==
    \A k \in 1..Len(separators) :
        separators[k] # <<>> /\ ~re_search(separators[k], chunk)

\* C12: with CHUNK_OVERLAP < CHUNK_SIZE, every chunk is at most CHUNK_SIZE
\* characters long, unless it is a single unit no separator can split.
C12_ChunkSizeBound ==
    (Returned /\ settings.CHUNK_OVERLAP < settings.CHUNK_SIZE) =>
        \A k \in 1..Len(pdocs) :
            \/ Len(ChunkTexts[k]) <= settings.CHUNK_SIZE
            \/ Unsplittable(ChunkTexts[k])

\* C12 witness: a text without whitespace, longer than CHUNK_SIZE, was cut
\* into several chunks.
C12_Witness ==
    /\ Returned /\ Len(pdocs) >= 2
    /\ \A k \in 1..Len(ptext) : ptext[k] \notin WhitespaceChars
    /\ Len(ptext) > settings.CHUNK_SIZE

\* The text is the chunks laid end to end, each chunk starting with some of
\* the last characters of the chunk before it (the overlap region).
RECURSIVE Rebuilds(_, _)
Rebuilds(chunks, text) ==
    IF chunks = <<>> THEN text = <<>>
    ELSE IF Len(chunks) = 1 THEN text = chunks[1]
    ELSE /\ StartsWith(text, chunks[1])
         /\ \E o \in 0..Min(Len(chunks[1]), Len(chunks[2])) :
               /\ EndsWith(chunks[1], SubSeq(chunks[2], 1, o))
               /\ Rebuilds(Tail(chunks), Drop(text, Len(chunks[1]) - o))

NoWhitespace(s) == SelectSeq(s, LAMBDA c : c \notin WhitespaceChars)

\* C13 as stated: for every non-empty text, the chunks with the overlap
\* regions removed are the text itself, whitespace included.
C13_Coverage == (Returned /\ ptext # <<>>) => Rebuilds(ChunkTexts, ptext)

\* C13, amended: the chunks with the overlap regions removed are the text up
\* to whitespace: every character of the text that is not whitespace is in
\* the chunks, in the order of the text.
C13_CoverageUpToWhitespace ==
    Returned =>
        Rebuilds([k \in 1..Len(pdocs) |-> NoWhitespace(ChunkTexts[k])],
                 NoWhitespace(ptext))

\* C13 witness: a text that starts with whitespace was cut into several
\* chunks.
C13_Witness ==
    /\ Returned /\ Len(pdocs) >= 2
    /\ ptext # <<>> /\ Head(ptext) \in WhitespaceChars

\* the last O characters of one chunk are the first O of the next
SharesBoundary(c, d, O) ==
    /\ Len(c) >= O /\ Len(d) >= O
    /\ Drop(c, Len(c) - O) = SubSeq(d, 1, O)

IsScenario == ptext = ScenarioText /\ settings = ScenarioSettings

SeparatorFree(s) ==
    /\ \A k \in 1..Len(s) : s[k] \notin WhitespaceChars
    /\ \A k \in 1..Len(separators) :
          separators[k] # <<>> => ~re_search(separators[k], s)

Searched == cpc \in {"llm", "done"}
Pairs == SelectSeq(results, IsPair)
StoreCall == calls[1]
LlmCall == calls[2]
Sources == output[1].source_documents
\* the metadata mapping a stored doc came with
Original(doc) ==
    IF doc.has_metadata /\ ~doc.metadata.is_none THEN doc.metadata.map ELSE EmptyDict
\* the rendered prompt the model received
Prompt ==
    IF chain.mode = "qa" THEN LlmCall.text
    ELSE LlmCall.messages[Len(LlmCall.messages)].content

\* C15: in both chains, every chunk retrieve returns carries under "score"
\* the score the store returned with it, whatever it carried there before;
\* its other metadata keys and its text are as the store returned them.
C15_ScoreAttached ==
    Searched =>
        /\ Len(retrieved) = Len(Pairs)
        /\ \A j \in 1..Len(retrieved) :
              LET was == Pairs[j].doc
                  now == retrieved[j]
              IN  /\ now.metadata.map.score = Pairs[j].score
                  /\ now.page_content = was.page_content
                  /\ DOMAIN now.metadata.map = DOMAIN Original(was) \cup {"score"}
                  /\ \A key \in DOMAIN Original(was) \ {"score"} :
                        now.metadata.map[key] = Original(was)[key]

\* C15 witness: a conversational call returned a chunk that came from the
\* store with a title and an older score.
C15_Witness ==
    /\ cpc = "done" /\ chain.mode = "conversational"
    /\ \E j \in 1..Len(Pairs) :
          /\ {"title", "score"} \subseteq DOMAIN Original(Pairs[j].doc)
          /\ Original(Pairs[j].doc).score # Pairs[j].score

\* C16: items of the response that are not 2-tuples are skipped one by one:
\* retrieve returns the chunks of exactly the 2-tuples, in their order, and
\* when retrieve raises it is never over an item that is not a 2-tuple.
C16_MalformedSkipped ==
    /\ Searched =>
          /\ Len(retrieved) = Len(Pairs)
          /\ \A j \in 1..Len(retrieved) :
                /\ retrieved[j].page_content = Pairs[j].doc.page_content
                /\ retrieved[j].metadata.map.score = Pairs[j].score
    /\ (cpc = "raised" /\ cfailure = "retrieve") =>
          \E j \in 1..Len(Pairs) : ~Pairs[j].doc.settable

\* C16 witness: the response held an item that is not a 2-tuple before a
\* 2-tuple, and the call returned the one chunk.
C16_Witness ==
    /\ cpc = "done" /\ Len(results) = 2
    /\ ~IsPair(results[1]) /\ IsPair(results[2])
    /\ Len(retrieved) = 1

\* the top-K in force: the override when one was given, else the setting
KInForce == IF chain.top_k = <<>> THEN settings.RETRIEVAL_TOP_K ELSE chain.top_k[1]

\* C17: the chunks an answer call returns are at most top-K in force, and
\* their scores never increase along the sequence.
C17_TopKAndOrder ==
    cpc = "done" =>
        /\ Len(Sources) <= KInForce
        /\ \A a, b \in 1..Len(Sources) :
              a < b => Sources[a].metadata.map.score >= Sources[b].metadata.map.score

\* C17 witness: a call with an override that differs from the configured
\* default returned as many chunks as the override allows.
C17_Witness ==
    /\ cpc = "done" /\ chain.top_k # <<>>
    /\ chain.top_k[1] # settings.RETRIEVAL_TOP_K
    /\ Len(Sources) = chain.top_k[1]

\* question verbatim, or question, prefix and the turns joined
Query(history) ==
    IF history = <<>> THEN <<inputs.question>>
    ELSE <<inputs.question, HISTORY_PREFIX>> \o Join(" | ", history)

\* the prompt of the retrieved chunks' text, in order, and the question alone
PromptOfRetrieved ==
    Prompt = Format(Join("\n\n", [j \in 1..Len(retrieved) |-> retrieved[j].page_content]),
                    <<inputs.question>>)

SuppliedHistory == inputs.chat_history.turns
EffectiveHistory ==
    IF SuppliedHistory # <<>> THEN SuppliedHistory
    ELSE IF chain.mode = "conversational" THEN chain.memory.turns
    ELSE <<>>

\* C18 as stated: the query sent to the store is the question verbatim when
\* the call has no history, and the question followed by the call's history,
\* oldest turn first, when it has; the prompt is rendered from the retrieved
\* chunks' text in retrieval order and the question without the history.
C18_QueryAndPrompt ==
    /\ cpc \in {"search", "llm", "done"} => StoreCall.query = Query(SuppliedHistory)
    /\ Searched => PromptOfRetrieved

\* C18, amended: the same with the history in effect, which is the call's
\* history or, when the call has none, the memory a conversational chain was
\* built with.
C18_QueryAndPromptEffective ==
    /\ cpc \in {"search", "llm", "done"} => StoreCall.query = Query(EffectiveHistory)
    /\ Searched => PromptOfRetrieved

\* C18 witness: a call with a history of two turns retrieved two chunks.
C18_Witness ==
    /\ cpc = "done" /\ Len(SuppliedHistory) = 2 /\ Len(retrieved) = 2

\* the model received the turns of `history` as user messages, in order,
\* then one user message with the prompt
MessagesOf(history) ==
    /\ Len(LlmCall.messages) = Len(history) + 1
    /\ \A j \in 1..Len(history) : LlmCall.messages[j] = HumanMessage(<<history[j]>>)
    /\ LlmCall.messages[Len(history) + 1].role = "human"
    /\ PromptOfRetrieved

\* C19 as stated: a conversational call with n history turns gives the model
\* n + 1 user messages, the n turns the caller supplied in that call and the
\* prompt; no turn comes from the construction of the chain or from an
\* earlier call.
C19_Messages ==
    (Searched /\ chain.mode = "conversational") => MessagesOf(SuppliedHistory)

\* C19, amended: the n turns are those of the history in effect: the call's
\* history or, when the call has none, the memory the chain was built with.
C19_MessagesEffective ==
    (Searched /\ chain.mode = "conversational") => MessagesOf(EffectiveHistory)

\* C19 witness: a chain built with a memory was called with a history of two
\* other turns and has returned.
C19_Witness ==
    /\ cpc = "done" /\ chain.mode = "conversational"
    /\ chain.memory.turns # <<>> /\ Len(SuppliedHistory) = 2

\* C20: a call makes its calls in the order search, model; a call that has
\* returned made exactly one of each, also when nothing was retrieved: the
\* prompt then has an empty context and the returned chunk list is empty.
C20_OneSearchOneCall ==
    /\ Len(calls) <= 2
    /\ Len(calls) >= 1 => StoreCall.to = "store"
    /\ Len(calls) = 2 => LlmCall.to = "llm"
    /\ cpc = "done" =>
          /\ Len(calls) = 2
          /\ retrieved = <<>> =>
                /\ Prompt = Format(<<>>, <<inputs.question>>)
                /\ Sources = <<>>

\* C20 witness: a call whose search found nothing has returned.
C20_Witness == cpc = "done" /\ results = <<>> /\ Len(calls) = 2

\* C21: a failed similarity search makes the call raise that error without
\* the language model being invoked and without an answer; a failed
\* language-model invocation makes the call raise that error; an answer is
\* returned only by a call whose search and whose model call both succeeded,
\* so no cached, default or empty answer stands in for a failure.
C21_FailurePropagates ==
    /\ cfailure \in {"search", "retrieve"} =>
           (cpc = "raised" /\ output = <<>> /\ Len(calls) = 1 /\ StoreCall.to = "store")
    /\ cfailure = "llm" => (cpc = "raised" /\ output = <<>>)
    /\ cpc = "raised" => (cfailure # "none" /\ output = <<>>)
    /\ output # <<>> => (cpc = "done" /\ cfailure = "none" /\ Len(calls) = 2)

\* the search of a conversational call with history has failed
C21_Witness ==
    /\ cpc = "raised" /\ cfailure = "search"
    /\ chain.mode = "conversational" /\ EffectiveHistory # <<>>
    /\ Len(calls) = 1 /\ output = <<>>

\* C22: a call that returns successfully returns one source per item of the
\* store's response: the list is empty only when the response was empty and
\* is never shorter than the response (a response that could not be
\* processed makes the call fail).
C22_EmptyOnlyWhenNothingFound ==
    (cpc = "done" /\ chain.return_source_documents) => Len(Sources) = Len(results)

(***************************************************************************)
(* Properties of the chunks handed to the store.                           *)
(***************************************************************************)
RequiredKeys == {"title", "url", "source", "chunk_index", "total_chunks"}
\* the chunks passed to add_documents so far
Handed == UNION {{addLog[j].batch[k] : k \in 1..Len(addLog[j].batch)} : j \in 1..Len(addLog)}

\* C23: every chunk ingest_from_crawler or ingest_from_text has passed to the
\* store's add_documents has a metadata mapping with the keys title, url,
\* source, chunk_index and total_chunks.
C23_MetadataKeys == \A c \in Handed : RequiredKeys \subseteq DOMAIN c.metadata

(***************************************************************************)
(* Properties of the configuration.                                        *)
(***************************************************************************)
\* C24: a configuration that has loaded has CHUNK_SIZE > 0 and
\* 0 <= CHUNK_OVERLAP < CHUNK_SIZE, and a splitter that has been built has
\* an overlap below its chunk size.
C24_ChunkSettingsValidated ==
    /\ lpc \in {"loaded", "built", "refused"} =>
           /\ settings.CHUNK_SIZE > 0
           /\ 0 <= settings.CHUNK_OVERLAP
           /\ settings.CHUNK_OVERLAP < settings.CHUNK_SIZE
    /\ lpc = "built" => settings.CHUNK_OVERLAP < settings.CHUNK_SIZE

(***************************************************************************)
(* Properties of fetch_html.                                               *)
(***************************************************************************)
Failures == SelectSeq(gets, LAMBDA g : g.outcome \in RequestExceptions)
Successes == {k \in 1..Len(gets) : gets[k].outcome = "ok"}

\* C25: fetch_html issues at most max_retries GETs; a GET that succeeds is
\* the last one and its body is returned; after max_retries failed GETs None
\* is returned and nothing is raised; the wait after failed attempt a is
\* 2^a seconds, and there is no wait after the last attempt.
C25_FetchRetries ==
    /\ Len(gets) <= fmax_retries
    /\ \A k \in Successes :
           k = Len(gets) /\ fpc = "returned" /\ html = <<Text(gets[k].body)>>
    /\ (fpc # "idle" /\ Len(Failures) = fmax_retries) =>
           (fpc = "returned" /\ html = <<None>>)
    /\ Len(sleeps) = Min(Len(Failures), IF fmax_retries > 0 THEN fmax_retries - 1 ELSE 0)
    /\ \A a \in 1..Len(sleeps) : sleeps[a] = 2 ^ (a - 1)
    /\ fpc = "raised" => (gets # <<>> /\ gets[Len(gets)].outcome = "other")

\* three GETs have failed: waits of 1 and 2 seconds, none after the third
C25_Witness ==
    /\ fpc = "returned" /\ html = <<None>>
    /\ fmax_retries = 3 /\ Len(Failures) = 3
    /\ sleeps = <<1, 2>>

(***************************************************************************)
(* Properties of init_vectorstore.                                         *)
(***************************************************************************)
CallIndexes(c) == {k \in 1..Len(ops) : ops[k].op = "call" /\ ops[k].by = c}
LastCallIndex(c) == CHOOSE k \in CallIndexes(c) : \A h \in CallIndexes(c) : h <= k
\* the requests of c's latest call, in order
CallOps(c) ==
    SelectSeq(SubSeq(ops, LastCallIndex(c) + 1, Len(ops)), LAMBDA o : o.by = c)
OpNames(c) == [k \in 1..Len(CallOps(c)) |-> CallOps(c)[k].op]
\* c's call has returned and no call has begun since
JustReturned(c) ==
    /\ ipc[c] = "returned"
    /\ \A k \in 1..Len(ops) : k > LastCallIndex(c) => ops[k].by = c

\* C26, for calls made one at a time: when a call has returned normally the
\* collection exists; with reset false and the collection present it asked
\* only for the list and the collection is as it was; with reset true and the
\* collection present it issued a delete and then a create; with the
\* collection absent it issued one create and no delete.
C26_InitVectorstore ==
    \A c \in Callers :
        JustReturned(c) =>
            /\ collection.exists
            /\ \A k \in 1..Len(CallOps(c)) : CallOps(c)[k].outcome = "ok"
            /\ (~reset[c] /\ before[c].exists) =>
                   (OpNames(c) = <<"list">> /\ collection = before[c])
            /\ (reset[c] /\ before[c].exists) =>
                   OpNames(c) = <<"list", "delete", "create">>
            /\ ~before[c].exists => OpNames(c) = <<"list", "create">>

\* a call with reset false has returned, after an earlier call with reset
\* true: the collection made by the earlier call is still there
C26_Witness ==
    /\ JustReturned(2) /\ ~reset[2] /\ before[2].exists
    /\ ipc[1] = "returned" /\ reset[1]
    /\ collection = [exists |-> TRUE, records |-> 0]
    /\ OpNames(1) = <<"list", "delete", "create">>

\* C30: when two calls with reset false have both begun while the collection
\* was absent and the server answered every request it received, neither
\* call raises and at most one create_collection is issued.
C30_ConcurrentInit ==
    (/\ \A c \in Callers : ipc[c] # "idle" /\ ~reset[c] /\ ~before[c].exists
     /\ \A k \in 1..Len(ops) : ops[k].outcome # "error")
        => /\ \A c \in Callers : ipc[c] # "raised"
           /\ Cardinality({k \in 1..Len(ops) : ops[k].op = "create"}) <= 1

(***************************************************************************)
(* Properties of ingest_papers.                                            *)
(***************************************************************************)
\* C27: over all runs no paperId is ingested more than once, none is
\* ingested twice within a run, and when a run has returned every id it
\* ingested is in the cache file.
C27_NoDuplicateIngest ==
    /\ \A id \in PaperIds : times[id] <= 1
    /\ \A id \in PaperIds : runTimes[id] <= 1
    /\ rpc = "done" =>
           \A id \in PaperIds :
               runTimes[id] > 0 => (cache.state = "ok" /\ id \in cache.ids)

\* C28: with a limit L >= 0 at most L papers are ingested and every request
\* is made with fewer than L ingested, for as many papers as are still
\* wanted; with limit -1 every request asks for 100 papers and the run
\* returns only after an empty page; the first request is at offset 0, each
\* later one at the offset and the size of the page before it added up, and
\* only the last page may be empty, so the offsets grow from page to page; a
\* request answered 429 is repeated as it was.
C28_LimitAndPaging ==
    /\ limit >= 0 =>
           /\ fetched <= limit
           /\ \A k \in 1..Len(requests) :
                  /\ requests[k].fetched < limit
                  /\ requests[k].limit = Min(limit - requests[k].fetched, 100)
    /\ limit = -1 =>
           /\ \A k \in 1..Len(requests) : requests[k].limit = 100
           /\ rpc = "done" => (Answered # <<>> /\ Answered[Len(Answered)].size = 0)
    /\ \A k \in 1..Len(Answered) :
           /\ Answered[k].offset = IF k = 1 THEN 0
                                   ELSE Answered[k - 1].offset + Answered[k - 1].size
           /\ k < Len(Answered) => Answered[k].size > 0
    /\ \A k \in 1..(Len(requests) - 1) :
           requests[k].status = 429 =>
               /\ requests[k + 1].offset = requests[k].offset
               /\ requests[k + 1].limit = requests[k].limit

\* a run with limit -1 has returned after two pages of two papers and an
\* empty page at offset 4
C28_Witness ==
    /\ rpc = "done" /\ limit = -1
    /\ Len(Answered) = 3
    /\ Answered[2].offset = 2 /\ Answered[3].offset = 4 /\ Answered[3].size = 0


\* the chunks counted by the ingest steps that returned normally
RECURSIVE IngestedBy(_)
IngestedBy(ss) ==
    IF ss = <<>>
    THEN 0
    ELSE (IF Head(ss).ingest = "ok" THEN Head(ss).count ELSE 0) + IngestedBy(Tail(ss))

\* C29: crawl_and_ingest runs every registered crawler exactly once, in list
\* order: the crawlers run so far are the first crawlers of the list, one step
\* each, and when the call has returned every crawler of the list has run,
\* whatever was raised by a crawl or an ingest step before it (the call always
\* returns, it never ends with an exception).  ingest is called for exactly the
\* crawlers whose crawl returned documents, and the ingested total is the sum
\* of the counts of the ingest steps that returned normally.
C29_EveryCrawlerRuns ==
    /\ kpc \in {"idle", "crawl", "ingest", "done"}
    /\ Len(steps) <= Len(crawlers)
    /\ \A k \in 1..Len(steps) :
        /\ steps[k].crawler = crawlers[k]
        /\ steps[k].ingest # "none" <=> (steps[k].crawl = "ok" /\ steps[k].documents > 0)
        /\ steps[k].ingest = "called" => (k = Len(steps) /\ kpc = "ingest")
    /\ kpc = "crawl" => Len(steps) = kindex - 1
    /\ kpc = "ingest" => Len(steps) = kindex
    /\ kpc = "done" => Len(steps) = Len(crawlers)
    /\ ktotal = IngestedBy(steps)

\* a call has returned in which one crawler's crawl raised, another crawler's
\* ingest raised, and a crawler after both ingested chunks
C29_Witness ==
    /\ kpc = "done"
    /\ \E a, b, c \in 1..Len(steps) :
        /\ a < c /\ b < c
        /\ steps[a].crawl = "raised"
        /\ steps[b].ingest = "raised"
        /\ steps[c].ingest = "ok" /\ steps[c].count > 0
    /\ ktotal > 0

=============================================================================
